---- MODULE Spec2Model ----
(***************************************************************************)
(* Promptober Pop-Cine: the day state manager, the import/export, the      *)
(* cache-clear of the PromptoberApp component (App.jsx) and the            *)
(* resolution of tweet images (handleTweetFetch), over the IndexedDB       *)
(* object stores days, images and urls.                                    *)
(*                                                                         *)
(* Granularity.  JavaScript runs one handler at a time and suspends it at  *)
(* every await.  One step of the model is one such run: an event handler   *)
(* up to its first await, or the completion of an awaited operation        *)
(* together with the continuation up to the next await.  State updates of  *)
(* one run are batched into one commit (React 18, createRoot).  A passive  *)
(* effect whose dependencies changed in a commit runs before any other     *)
(* handler: AutoCompleteEffect is a step of its own that pre-empts every   *)
(* other step; the day load effect is folded into SelectDay, the only      *)
(* handler that changes its dependencies.                                  *)
(*                                                                         *)
(* IndexedDB requests on one database are served in the order they were    *)
(* issued (every helper opens the database and then runs one transaction), *)
(* so the pending storage operations form the FIFO queue dbq.  Each entry  *)
(* is the frame of the suspended async function: its closure variables     *)
(* and where it is suspended (pc).                                         *)
(***************************************************************************)
EXTENDS Integers, Sequences, FiniteSets, TLC

VARIABLES
  year,             \* useState(initial.year)
  selectedDay,      \* useState(initial.day)
  dayState,         \* useState(undefined): the current record
  oembedImgs,       \* useState([]): the resolved images
  manualUrlsInput,  \* useState(""): the text of the manual URL box
  allDaysCache,     \* useState({}): day -> record, for the calendar
  prevImgCountRef,  \* useRef(0)
  days,             \* object store "days", keyPath id
  dbq,              \* suspended async functions waiting for IndexedDB, FIFO
  reader,           \* FileReader reads in flight (handleImport)
  images,           \* object store "images", keyPath url
  urls,             \* object store "urls", keyPath tweetUrl
  loading,          \* useState(false): a resolution is running
  tweetFetch,       \* the frame of handleTweetFetch: where it is suspended, its locals
  net,              \* the network requests in flight
  now,              \* Date.now()
  exportFile,       \* the last document handleExport offered for download
  exportedDays,     \* history: the days store as it was when exportFile was written
  autoMarked,       \* history: ids of the records the auto-completion rule has patched
  unmarked,         \* history: ids in autoMarked the user has since unchecked by hand
  last              \* history: what the last step did

vars == <<year, selectedDay, dayState, oembedImgs, manualUrlsInput, allDaysCache,
          prevImgCountRef, days, dbq, reader, images, urls, loading, tweetFetch,
          net, now, exportFile, exportedDays, autoMarked, unmarked, last>>

ui == <<oembedImgs, manualUrlsInput, allDaysCache>>
caches == <<images, urls>>
exported == <<exportFile, exportedDays>>
marks == <<autoMarked, unmarked>>
resolver == <<loading, tweetFetch, net, now>>

(***************************************************************************)
(* Bounds of the model.                                                    *)
(***************************************************************************)
\* Days 1..MaxDay of the 31 are selectable.
MaxDay == 2
\* The user starts no storage operation while MaxQueue of them are pending,
\* and picks no file while MaxQueue imports are in progress.
MaxQueue == 1

\* The longest text typed into the manual URL box when all texts are tried.
MaxText == 3

\* The year the clock gives at start-up.
Year == 2025

Days == 1..MaxDay

(***************************************************************************)
(* JavaScript values.  A record is a function from field names to values;  *)
(* undefined is a value of its own.                                        *)
(***************************************************************************)
Undefined == [undefined |-> TRUE]

IsDefined(r) == "undefined" \notin DOMAIN r

\* { ...a, ...b }
Spread(a, b) == [f \in DOMAIN a \cup DOMAIN b |-> IF f \in DOMAIN b THEN b[f] ELSE a[f]]

\* r?.manualImageUrls || []
ManualOf(r) == IF IsDefined(r) /\ "manualImageUrls" \in DOMAIN r THEN r.manualImageUrls ELSE <<>>

\* !!r.done
DoneOf(r) == "done" \in DOMAIN r /\ r.done

\* The year and the day side by side.
idFor_NoSeparator(y, d) == ToString(y) \o ToString(d)

\* `${year}-10-${day}`
idFor(y, d) == ToString(y) \o "-10-" \o ToString(d)

\* The default record with the arguments of idFor exchanged.
DefaultDayState_SwappedId(y, d) ==
  [id |-> idFor(d, y), year |-> y, day |-> d, done |-> FALSE, tweetUrl |-> "",
   manualImageUrls |-> <<>>]

\* The record the day load effect synthesizes when the store has none.
DefaultDayState(y, d) ==
  [id |-> idFor(y, d), year |-> y, day |-> d, done |-> FALSE, tweetUrl |-> "",
   manualImageUrls |-> <<>>]

(***************************************************************************)
(* Text.  A text is a sequence of chunks: a chunk is a separator (",",     *)
(* "\n"), a blank (" ") or a run of other characters; the text is their    *)
(* concatenation.                                                          *)
(***************************************************************************)
RECURSIVE ConcatChunks(_)
ConcatChunks(p) == IF p = <<>> THEN "" ELSE Head(p) \o ConcatChunks(Tail(p))

\* text.split(/[\n,]/): the pieces between separators, empty ones included.
RECURSIVE SplitText(_, _)
SplitText(text, piece) ==
  IF text = <<>> THEN <<piece>>
  ELSE IF Head(text) \in {",", "\n"} THEN <<piece>> \o SplitText(Tail(text), <<>>)
  ELSE SplitText(Tail(text), Append(piece, Head(text)))

\* s.trim()
RECURSIVE TrimLeft(_)
TrimLeft(p) == IF p # <<>> /\ Head(p) = " " THEN TrimLeft(Tail(p)) ELSE p

RECURSIVE TrimRight(_)
TrimRight(p) ==
  IF p # <<>> /\ p[Len(p)] = " " THEN TrimRight(SubSeq(p, 1, Len(p) - 1)) ELSE p

Trim(p) == TrimRight(TrimLeft(p))

NonEmptyString(s) == s # ""

\* The pieces split and trimmed, the empty ones kept.
ParseManualUrls_KeepsEmpty(text) ==
  LET pieces == SplitText(text, <<>>)
  IN [i \in 1..Len(pieces) |-> ConcatChunks(Trim(pieces[i]))]

\* manualUrlsInput.split(/[\n,]/).map(s => s.trim()).filter(s => s.length > 0)
ParseManualUrls(text) ==
  LET pieces == SplitText(text, <<>>)
      trimmed == [i \in 1..Len(pieces) |-> ConcatChunks(Trim(pieces[i]))]
  IN SelectSeq(trimmed, NonEmptyString)

\* urls.join(", ")
RECURSIVE JoinUrls(_)
JoinUrls(list) ==
  IF list = <<>> THEN <<>>
  ELSE IF Len(list) = 1 THEN <<list[1]>>
  ELSE <<list[1], ",", " ">> \o JoinUrls(Tail(list))

\* The two lists joined with every URL once.
AllImages_Deduped(imgs, r) ==
  LET both == imgs \o SelectSeq(ManualOf(r), NonEmptyString) IN
    SelectSeq([i \in 1..Len(both) |->
                 IF \E j \in 1..(i - 1) : both[j] = both[i] THEN "" ELSE both[i]],
              NonEmptyString)

\* [...oembedImgs, ...(dayState?.manualImageUrls || []).filter(Boolean)]
AllImages(imgs, r) == imgs \o SelectSeq(ManualOf(r), NonEmptyString)

allImages == AllImages(oembedImgs, dayState)

(***************************************************************************)
(* IndexedDB object stores: a function from keys to records; put upserts   *)
(* under the record's key path, getAll lists the records in key order.     *)
(***************************************************************************)
EmptyStore == <<>>

\* store.put(rec) on the days store (keyPath "id")
Put(store, rec) ==
  [k \in DOMAIN store \cup {rec.id} |-> IF k = rec.id THEN rec ELSE store[k]]

\* getDay: store.get(idFor(year, day))
getDay(store, y, d) ==
  IF idFor(y, d) \in DOMAIN store THEN store[idFor(y, d)] ELSE Undefined

\* Keys are strings, ordered by code unit: "2025-10-10" sorts before "2025-10-2".
RECURSIVE Digits(_)
Digits(n) == IF n < 10 THEN <<n>> ELSE Append(Digits(n \div 10), n % 10)

RECURSIVE LexLess(_, _)
LexLess(a, b) ==
  IF b = <<>> THEN FALSE
  ELSE IF a = <<>> THEN TRUE
  ELSE IF Head(a) # Head(b) THEN Head(a) < Head(b)
  ELSE LexLess(Tail(a), Tail(b))

RECURSIVE SortDays(_)
SortDays(S) ==
  IF S = {} THEN <<>>
  ELSE LET m == CHOOSE x \in S : \A y \in S \ {x} : LexLess(Digits(x), Digits(y))
       IN <<m>> \o SortDays(S \ {m})

\* A key that is no idFor(year, day): it enters through an imported document.
ForeignId == "x"

\* Every key of the model in key order: the day keys, then the foreign key
\* (a letter sorts after a digit).
KeyOrder ==
  LET ds == SortDays(Days) IN [i \in 1..Len(ds) |-> idFor(Year, ds[i])] \o <<ForeignId>>

\* getAllDays: store.getAll()
getAllDays(store) ==
  LET InStore(k) == k \in DOMAIN store
      ks == SelectSeq(KeyOrder, InStore)
  IN [i \in 1..Len(ks) |-> store[ks[i]]]

\* const map = {}; list.forEach((d) => (map[d.day] = d))
DayMap(list) ==
  [d \in {list[i].day : i \in 1..Len(list)} |->
     list[CHOOSE i \in 1..Len(list) :
            list[i].day = d /\ \A j \in (i + 1)..Len(list) : list[j].day # d]]

\* (m) => ({ ...m, [next.day]: next })
DayMapSet(m, next) ==
  [d \in DOMAIN m \cup {next.day} |-> IF d = next.day THEN next ELSE m[d]]

(***************************************************************************)
(* JSON documents.  A document is kept as its syntax tree, every node      *)
(* tagged with its JSON type; a file that is no JSON text is "invalid".    *)
(***************************************************************************)
JObj(f) == [t |-> "object", v |-> f]
JArr(q) == [t |-> "array", v |-> q]
JStr(x) == [t |-> "string", v |-> x]
JNum(n) == [t |-> "number", v |-> n]
JBool(b) == [t |-> "boolean", v |-> b]

\* What JSON.stringify writes for the value x of field f of a day record:
\* year and day hold numbers, done a boolean, manualImageUrls a list of
\* strings, every other field of the model a string.
JsonOfField(f, x) ==
  IF f \in {"year", "day"} THEN JNum(x)
  ELSE IF f = "done" THEN JBool(x)
  ELSE IF f = "manualImageUrls" THEN JArr([i \in 1..Len(x) |-> JStr(x[i])])
  ELSE JStr(x)

JsonOfRecord(r) == JObj([f \in DOMAIN r |-> JsonOfField(f, r[f])])

\* The document with only the fields of the default record written.
JsonStringify_KnownFields(payload) ==
  JObj([year |-> JNum(payload.year), month |-> JNum(payload.month),
        data |-> JArr([i \in 1..Len(payload.data) |->
                  JsonOfRecord([f \in DOMAIN payload.data[i] \cap
                                  {"id", "year", "day", "done", "tweetUrl",
                                   "manualImageUrls"}
                                |-> payload.data[i][f]])])])

\* JSON.stringify({ year, month: 10, data: all }, null, 2)
JsonStringify(payload) ==
  JObj([year |-> JNum(payload.year), month |-> JNum(payload.month),
        data |-> JArr([i \in 1..Len(payload.data) |-> JsonOfRecord(payload.data[i])])])

\* JSON.parse throws on a text that is no JSON.
ParseThrows(text) == text.t = "invalid"

\* The JavaScript value JSON.parse gives for a node.
RECURSIVE JsonParse(_)
JsonParse(j) ==
  IF j.t = "object" THEN [f \in DOMAIN j.v |-> JsonParse(j.v[f])]
  ELSE IF j.t = "array" THEN [i \in 1..Len(j.v) |-> JsonParse(j.v[i])]
  ELSE j.v

Truthy(j) ==
  ~ \/ j.t = "null"
    \/ j.t = "number" /\ j.v = 0
    \/ j.t = "string" /\ j.v = ""
    \/ j.t = "boolean" /\ ~j.v

\* json?.data || [], as a node of the document
ImportList(json) ==
  IF json.t = "object" /\ "data" \in DOMAIN json.v /\ Truthy(json.v.data)
  THEN json.v.data
  ELSE JArr(<<>>)

\* store.put(d) throws a DataError unless d is an object with a key at "id".
Storable(d) == d.t = "object" /\ "id" \in DOMAIN d.v

\* list.forEach((d) => store.put(d)): the puts made before the first throw
\* stay in the transaction, which commits.
RECURSIVE PutEach(_, _)
PutEach(store, elems) ==
  IF elems = <<>> \/ ~Storable(Head(elems)) THEN store
  ELSE PutEach(Put(store, JsonParse(Head(elems))), Tail(elems))

\* Whether the forEach throws: list has no forEach, or a put throws.
PutThrows(list) ==
  \/ list.t # "array"
  \/ \E i \in 1..Len(list.v) : ~Storable(list.v[i])

\* The import that empties the store before it puts the records.
ImportPutAll_Replace(store, list) ==
  IF list.t = "array" THEN PutEach(EmptyStore, list.v) ELSE store

ImportPutAll(store, list) == IF list.t = "array" THEN PutEach(store, list.v) ELSE store

(***************************************************************************)
(* Inputs.                                                                 *)
(***************************************************************************)
\* Texts the user types into the manual URL box.
ManualTexts == << <<" ", "m1", ",">>, <<"m1", ",", "\n", "m2">> >>

\* What a key stroke adds to the manual URL box: a blank, a separator, a word.
TextChunks == {" ", ",", "\n", "a", "b"}

\* The texts one key stroke away: a chunk more, up to MaxText, or the box emptied.
TextsAfterKey(text) ==
  {<<>>} \cup {Append(text, c) : c \in IF Len(text) < MaxText THEN TextChunks ELSE {}}

\* Values the user types into the tweet URL field.
TweetUrls == <<"", "t1">>

\* Documents the user picks for import, written by hand or by another tool.
FileRecords ==
  JObj([year |-> JNum(Year), month |-> JNum(10),
        data |-> JArr(<<
          JObj([id |-> JStr(idFor(Year, 1)), year |-> JNum(Year), day |-> JNum(1),
                done |-> JBool(FALSE), tweetUrl |-> JStr(""),
                manualImageUrls |-> JArr(<<JStr("m1")>>), note |-> JStr("n")]),
          JObj([id |-> JStr(ForeignId), year |-> JNum(Year), day |-> JNum(1),
                done |-> JBool(TRUE), tweetUrl |-> JStr(""),
                manualImageUrls |-> JArr(<<>>)]) >>)])

\* A document whose record of day 1 lists an empty URL and one URL twice.
FileBlankUrl ==
  JObj([year |-> JNum(Year), month |-> JNum(10),
        data |-> JArr(<<
          JObj([id |-> JStr(idFor(Year, 1)), year |-> JNum(Year), day |-> JNum(1),
                done |-> JBool(TRUE), tweetUrl |-> JStr("t1"),
                manualImageUrls |-> JArr(<<JStr(""), JStr("e1"), JStr("e1")>>)]) >>)])

FileNoData == JObj([year |-> JNum(Year), month |-> JNum(10)])

FileBadData == JObj([year |-> JNum(Year), month |-> JNum(10), data |-> JStr("abc")])

ImportFiles == <<FileRecords, FileNoData, FileBadData>>

NoFile == [t |-> "none"]

(***************************************************************************)
(* Initial state: the component has mounted, the day load effect has run   *)
(* to its first await (getDay).                                            *)
(***************************************************************************)
LoadFrame(y, d, pc) == [kind |-> "load", pc |-> pc, year |-> y, selectedDay |-> d]

Init ==
  /\ year = Year
  /\ selectedDay \in Days
  /\ dayState = Undefined
  /\ oembedImgs = <<>>
  /\ manualUrlsInput = <<>>
  /\ allDaysCache = <<>>
  /\ prevImgCountRef = 0
  /\ days = EmptyStore
  /\ dbq = <<LoadFrame(year, selectedDay, "getDay")>>
  /\ reader = <<>>
  /\ images = EmptyStore
  /\ urls = EmptyStore
  /\ loading = FALSE
  /\ tweetFetch = [pc |-> "idle"]
  /\ net = {}
  /\ now = 0
  /\ exportFile = NoFile
  /\ exportedDays = EmptyStore
  /\ autoMarked = {}
  /\ unmarked = {}
  /\ last = [op |-> "mount"]

\* No passive effect is pending: the auto-completion effect has seen the
\* current image count (its only dependency is allImages.length).
EffectsFlushed == prevImgCountRef = Len(allImages)

CanAwaitDb == Len(dbq) < MaxQueue

\* Imports in progress: the file is being read, or its frame waits in dbq.
CanImport ==
  Len(reader) + Cardinality({i \in 1..Len(dbq) : dbq[i].kind = "import"}) < MaxQueue

(***************************************************************************)
(* persist and the handlers that call it.  A handler of the user runs when *)
(* no effect is pending.                                                   *)
(***************************************************************************)
\* The patch applied to a fresh default record instead of the current record.
PersistNext_OnDefault(r, partial) == Spread(DefaultDayState(r.year, r.day), partial)

\* The spread in the other order: { ...partial, ...dayState }
PersistNext_PatchFirst(r, partial) == Spread(partial, r)

\* const next = { ...dayState, ...partial }
PersistNext(r, partial) == Spread(r, partial)

\* The frame of persist suspended at await setDay(next).
PersistFrame(r, partial) ==
  [kind |-> "persist", pc |-> "setDay", dayState |-> r, partial |-> partial,
   next |-> PersistNext(r, partial)]

\* persist(partial) up to its await; it returns at once when no record is loaded.
Persist(partial) ==
  IF IsDefined(dayState)
  THEN /\ dayState' = PersistNext(dayState, partial)
       /\ dbq' = Append(dbq, PersistFrame(dayState, partial))
  ELSE UNCHANGED <<dayState, dbq>>

\* The checkbox shows !!dayState?.done; a click reports the opposite.
toggleDone ==
  /\ EffectsFlushed /\ CanAwaitDb
  /\ LET checked == ~DoneOf(dayState) IN
       /\ Persist([done |-> checked])
       /\ unmarked' = IF IsDefined(dayState) /\ ~checked /\ dayState.id \in autoMarked
                      THEN unmarked \cup {dayState.id} ELSE unmarked
       /\ last' = [op |-> "toggleDone", checked |-> checked]
  /\ UNCHANGED <<year, selectedDay, ui, prevImgCountRef, days, reader, caches,
                 exported, autoMarked,
                 resolver>>

\* onChange of the tweet URL field: persist({ tweetUrl: e.target.value })
EditTweetUrl(u) ==
  /\ EffectsFlushed /\ CanAwaitDb
  /\ u # (IF IsDefined(dayState) /\ "tweetUrl" \in DOMAIN dayState
          THEN dayState.tweetUrl ELSE "")
  /\ Persist([tweetUrl |-> u])
  /\ last' = [op |-> "editTweetUrl"]
  /\ UNCHANGED <<year, selectedDay, ui, prevImgCountRef, days, reader, caches,
                 exported, marks,
                 resolver>>

\* onChange of the manual URL box: setManualUrlsInput(e.target.value)
TypeManualUrls(text) ==
  /\ EffectsFlushed
  /\ text # manualUrlsInput
  /\ manualUrlsInput' = text
  /\ last' = [op |-> "typeManualUrls"]
  /\ UNCHANGED <<year, selectedDay, dayState, oembedImgs, allDaysCache,
                 prevImgCountRef, days, dbq, reader, caches, exported, marks,
                 resolver>>

\* onBlur of the box and the button "Guardar imágenes"
handleManualUrlsSave ==
  /\ EffectsFlushed /\ CanAwaitDb
  /\ Persist([manualImageUrls |-> ParseManualUrls(manualUrlsInput)])
  /\ last' = [op |-> "manualUrlsSave"]
  /\ UNCHANGED <<year, selectedDay, ui, prevImgCountRef, days, reader, caches,
                 exported, marks,
                 resolver>>

\* The button "Limpiar": setManualUrlsInput(""); persist({ manualImageUrls: [] })
ClearManualUrls ==
  /\ EffectsFlushed /\ CanAwaitDb
  /\ manualUrlsInput' = <<>>
  /\ Persist([manualImageUrls |-> <<>>])
  /\ last' = [op |-> "clearManualUrls"]
  /\ UNCHANGED <<year, selectedDay, oembedImgs, allDaysCache, prevImgCountRef,
                 days, reader, caches, exported, marks,
                 resolver>>

\* persist called with a patch of no fields.
PersistEmpty ==
  /\ EffectsFlushed /\ CanAwaitDb
  /\ Persist(<<>>)
  /\ last' = [op |-> "persistEmpty"]
  /\ UNCHANGED <<year, selectedDay, ui, prevImgCountRef, days, reader, caches,
                 exported, marks,
                 resolver>>

\* setDay(next) completes; persist goes on: setAllDaysCache(m => ({...m, [next.day]: next}))
PersistSetDay ==
  /\ EffectsFlushed
  /\ dbq # <<>> /\ Head(dbq).kind = "persist"
  /\ LET f == Head(dbq) IN
       /\ days' = Put(days, f.next)
       /\ allDaysCache' = DayMapSet(allDaysCache, f.next)
       /\ last' = [op |-> "setDay", frame |-> f]
  /\ dbq' = Tail(dbq)
  /\ UNCHANGED <<year, selectedDay, dayState, oembedImgs, manualUrlsInput,
                 prevImgCountRef, reader, caches, exported, marks,
                 resolver>>

\* await setDay(next) rejects (tx.onerror): persist ends there, its caller
\* does not await it; setAllDaysCache is not reached.
PersistSetDayFails ==
  /\ EffectsFlushed
  /\ dbq # <<>> /\ Head(dbq).kind = "persist"
  /\ last' = [op |-> "setDayError", frame |-> Head(dbq)]
  /\ dbq' = Tail(dbq)
  /\ UNCHANGED <<year, selectedDay, dayState, ui, prevImgCountRef, days, reader,
                 caches, exported, marks, resolver>>

(***************************************************************************)
(* The auto-completion effect, dependency allImages.length.                *)
(***************************************************************************)
\* The rule without its edge: it fires at any positive count.
AutoCompleteFires_NoEdge(prev, curr, r) == curr > 0 /\ IsDefined(r) /\ ~DoneOf(r)

\* prev === 0 && curr > 0 && dayState && !dayState.done
AutoCompleteFires(prev, curr, r) == prev = 0 /\ curr > 0 /\ IsDefined(r) /\ ~DoneOf(r)

AutoCompleteEffect ==
  /\ ~EffectsFlushed
  /\ LET prev == prevImgCountRef
         curr == Len(allImages)
     IN /\ IF AutoCompleteFires(prev, curr, dayState)
           THEN /\ Persist([done |-> TRUE])
                /\ autoMarked' = autoMarked \cup {dayState.id}
           ELSE UNCHANGED <<dayState, dbq, autoMarked>>
        /\ prevImgCountRef' = curr
  /\ last' = [op |-> "autoEffect"]
  /\ UNCHANGED <<year, selectedDay, ui, days, reader, caches, exported, unmarked,
                 resolver>>

(***************************************************************************)
(* The day load effect, dependencies year and selectedDay.                 *)
(***************************************************************************)
\* onSelect of the calendar: setSelectedDay(d); the effect starts getDay.
SelectDay(d) ==
  /\ EffectsFlushed /\ CanAwaitDb
  /\ d # selectedDay
  /\ selectedDay' = d
  /\ dbq' = Append(dbq, LoadFrame(year, d, "getDay"))
  /\ last' = [op |-> "selectDay"]
  /\ UNCHANGED <<year, dayState, ui, prevImgCountRef, days, reader, caches,
                 exported, marks,
                 resolver>>

\* getDay completes: setDayState(st ?? default), setOembedImgs([]),
\* setManualUrlsInput(join); getAllDays starts.
LoadGetDay ==
  /\ EffectsFlushed
  /\ dbq # <<>> /\ Head(dbq).kind = "load" /\ Head(dbq).pc = "getDay"
  /\ LET f == Head(dbq)
         st == getDay(days, f.year, f.selectedDay)
     IN /\ dayState' = IF IsDefined(st) THEN st
                       ELSE DefaultDayState(f.year, f.selectedDay)
        /\ oembedImgs' = <<>>
        /\ manualUrlsInput' = JoinUrls(ManualOf(st))
        /\ dbq' = <<[f EXCEPT !.pc = "getAllDays"]>> \o Tail(dbq)
        /\ last' = [op |-> "loadDay", year |-> f.year, day |-> f.selectedDay]
  /\ UNCHANGED <<year, selectedDay, allDaysCache, prevImgCountRef, days, reader,
                 caches, exported, marks,
                 resolver>>

\* getAllDays completes: setAllDaysCache(map)
LoadGetAllDays ==
  /\ EffectsFlushed
  /\ dbq # <<>> /\ Head(dbq).kind = "load" /\ Head(dbq).pc = "getAllDays"
  /\ allDaysCache' = DayMap(getAllDays(days))
  /\ dbq' = Tail(dbq)
  /\ last' = [op |-> "loadAllDays"]
  /\ UNCHANGED <<year, selectedDay, dayState, oembedImgs, manualUrlsInput,
                 prevImgCountRef, days, reader, caches, exported, marks,
                 resolver>>

(***************************************************************************)
(* Export and import.                                                      *)
(***************************************************************************)
\* handleExport up to await getAllDays()
handleExport ==
  /\ EffectsFlushed /\ CanAwaitDb
  /\ dbq' = Append(dbq, [kind |-> "export", pc |-> "getAllDays", year |-> year])
  /\ last' = [op |-> "export"]
  /\ UNCHANGED <<year, selectedDay, dayState, ui, prevImgCountRef, days, reader,
                 caches, exported, marks,
                 resolver>>

\* getAllDays completes: the document is written and offered for download.
ExportGetAllDays ==
  /\ EffectsFlushed
  /\ dbq # <<>> /\ Head(dbq).kind = "export"
  /\ exportFile' = JsonStringify([year |-> Head(dbq).year, month |-> 10,
                                  data |-> getAllDays(days)])
  /\ exportedDays' = days
  /\ dbq' = Tail(dbq)
  /\ last' = [op |-> "exportFile"]
  /\ UNCHANGED <<year, selectedDay, dayState, ui, prevImgCountRef, days, reader,
                 caches, marks,
                 resolver>>

\* handleImport: reader.readAsText(file); onload closes over year and selectedDay.
handleImport(file) ==
  /\ EffectsFlushed /\ CanImport
  /\ reader' = Append(reader, [file |-> file, year |-> year, selectedDay |-> selectedDay])
  /\ last' = [op |-> "import"]
  /\ UNCHANGED <<year, selectedDay, dayState, ui, prevImgCountRef, days, dbq,
                 caches, exported, marks,
                 resolver>>

\* The user picks a document written by hand or by another tool.
ImportPicked == \E i \in 1..Len(ImportFiles) : handleImport(ImportFiles[i])

\* The user picks the document the last export wrote.
ImportExported == exportFile # NoFile /\ handleImport(exportFile)

\* reader.onload up to await openDB(): JSON.parse, json?.data || []
ImportOnload ==
  /\ EffectsFlushed
  /\ reader # <<>>
  /\ LET r == Head(reader) IN
       IF ParseThrows(r.file)
       THEN /\ last' = [op |-> "importParseError"]
            /\ UNCHANGED dbq
       ELSE /\ dbq' = Append(dbq, [kind |-> "import", pc |-> "put", json |-> r.file,
                                   list |-> ImportList(r.file), year |-> r.year,
                                   selectedDay |-> r.selectedDay])
            /\ last' = [op |-> "importOnload"]
  /\ reader' = Tail(reader)
  /\ UNCHANGED <<year, selectedDay, dayState, ui, prevImgCountRef, days, caches,
                 exported, marks,
                 resolver>>

\* The readwrite transaction: list.forEach((d) => store.put(d)).  A throw
\* goes to the catch, which logs it and ends the import.
ImportPut ==
  /\ EffectsFlushed
  /\ dbq # <<>> /\ Head(dbq).kind = "import" /\ Head(dbq).pc = "put"
  /\ LET f == Head(dbq) IN
       /\ days' = ImportPutAll(days, f.list)
       /\ IF PutThrows(f.list)
          THEN /\ dbq' = Tail(dbq)
               /\ last' = [op |-> "importPutError", json |-> f.json]
          ELSE /\ dbq' = <<[f EXCEPT !.pc = "getDay"]>> \o Tail(dbq)
               /\ last' = [op |-> "importPut", json |-> f.json]
  /\ UNCHANGED <<year, selectedDay, dayState, ui, prevImgCountRef, reader, caches,
                 exported, marks,
                 resolver>>

\* const st = await getDay(year, selectedDay); setDayState(st)
ImportGetDay ==
  /\ EffectsFlushed
  /\ dbq # <<>> /\ Head(dbq).kind = "import" /\ Head(dbq).pc = "getDay"
  /\ LET f == Head(dbq) IN
       /\ dayState' = getDay(days, f.year, f.selectedDay)
       /\ dbq' = <<[f EXCEPT !.pc = "getAllDays"]>> \o Tail(dbq)
       /\ last' = [op |-> "importGetDay", year |-> f.year, day |-> f.selectedDay]
  /\ UNCHANGED <<year, selectedDay, ui, prevImgCountRef, days, reader, caches,
                 exported, marks,
                 resolver>>

\* const all = await getAllDays(); setAllDaysCache(map)
ImportGetAllDays ==
  /\ EffectsFlushed
  /\ dbq # <<>> /\ Head(dbq).kind = "import" /\ Head(dbq).pc = "getAllDays"
  /\ allDaysCache' = DayMap(getAllDays(days))
  /\ dbq' = Tail(dbq)
  /\ last' = [op |-> "importAllDays"]
  /\ UNCHANGED <<year, selectedDay, dayState, oembedImgs, manualUrlsInput,
                 prevImgCountRef, days, reader, caches, exported, marks,
                 resolver>>

(***************************************************************************)
(* The button "Limpiar Cache" (the user confirms).                         *)
(***************************************************************************)
\* A reset that leaves the mark of the day.
ClearedDayState_KeepsDone(r) == Spread(r, [tweetUrl |-> "", manualImageUrls |-> <<>>])

\* { ...dayState, tweetUrl: "", manualImageUrls: [], done: false }
ClearedDayState(r) ==
  Spread(r, [tweetUrl |-> "", manualImageUrls |-> <<>>, done |-> FALSE])

\* onClick up to await clearImageCache(); the handler closes over dayState.
handleClearCache ==
  /\ EffectsFlushed /\ CanAwaitDb
  /\ dbq' = Append(dbq, [kind |-> "clear", pc |-> "clearImageCache",
                         dayState |-> dayState])
  /\ last' = [op |-> "clearCache"]
  /\ UNCHANGED <<year, selectedDay, dayState, ui, prevImgCountRef, days, reader,
                 caches, exported, marks,
                 resolver>>

\* clearImageCache completes; clearUrlsCache starts.
clearImageCache ==
  /\ EffectsFlushed
  /\ dbq # <<>> /\ Head(dbq).kind = "clear" /\ Head(dbq).pc = "clearImageCache"
  /\ images' = EmptyStore
  /\ dbq' = <<[Head(dbq) EXCEPT !.pc = "clearUrlsCache"]>> \o Tail(dbq)
  /\ last' = [op |-> "clearImageCache"]
  /\ UNCHANGED <<year, selectedDay, dayState, ui, prevImgCountRef, days, reader,
                 urls, exported, marks,
                 resolver>>

\* clearUrlsCache completes: setOembedImgs([]); if (dayState) setDay(updated)
\* starts.  What follows a missing dayState only reads the cache statistics.
clearUrlsCache ==
  /\ EffectsFlushed
  /\ dbq # <<>> /\ Head(dbq).kind = "clear" /\ Head(dbq).pc = "clearUrlsCache"
  /\ urls' = EmptyStore
  /\ oembedImgs' = <<>>
  /\ dbq' = IF IsDefined(Head(dbq).dayState)
            THEN <<[Head(dbq) EXCEPT !.pc = "setDay"]>> \o Tail(dbq)
            ELSE Tail(dbq)
  /\ last' = [op |-> "clearUrlsCache"]
  /\ UNCHANGED <<year, selectedDay, dayState, manualUrlsInput, allDaysCache,
                 prevImgCountRef, days, reader, images, exported, marks,
                 resolver>>

\* setDay(updatedDayState) completes: setDayState(updatedDayState)
ClearSetDay ==
  /\ EffectsFlushed
  /\ dbq # <<>> /\ Head(dbq).kind = "clear" /\ Head(dbq).pc = "setDay"
  /\ LET updatedDayState == ClearedDayState(Head(dbq).dayState) IN
       /\ days' = Put(days, updatedDayState)
       /\ dayState' = updatedDayState
  /\ dbq' = Tail(dbq)
  /\ last' = [op |-> "clearSetDay"]
  /\ UNCHANGED <<year, selectedDay, ui, prevImgCountRef, reader, caches, exported,
                 marks,
                 resolver>>

(***************************************************************************)
(* The caches of resolved URL lists (store urls, keyPath tweetUrl) and of  *)
(* downloaded images (store images, keyPath url).                          *)
(***************************************************************************)
\* Time is counted in whole seconds, Date.now() in ms being beyond the
\* integers of the model checker: 365 * 24 * 60 * 60 * 1000 ms.
TTL == 365 * 24 * 60 * 60

\* The instants the clock shows: the start, one TTL later, one unit after that.
Instants == {0, TTL, TTL + 1}

\* Expiry that starts at the TTL itself.
IsExpired_AtTTL(t, timestamp) == t - timestamp >= TTL

\* Date.now() - result.timestamp > 365 * 24 * 60 * 60 * 1000
IsExpired(t, timestamp) == t - timestamp > TTL

\* What a cache read resolves to: null, or a value.
Null == [null |-> TRUE, v |-> <<>>]
Value(x) == [null |-> FALSE, v |-> x]

\* getTweetUrlsFromCache at time t.  An empty list is truthy.
getTweetUrlsFromCache(store, tweetUrl, t) ==
  IF tweetUrl \in DOMAIN store
  THEN IF IsExpired(t, store[tweetUrl].timestamp) THEN Null
       ELSE Value(store[tweetUrl].imageUrls)
  ELSE Null

\* The list stored under its first image instead of the tweet URL.
saveTweetUrlsToCache_ByFirstImage(store, tweetUrl, imageUrls, t) ==
  [k \in DOMAIN store \cup {imageUrls[1]} |->
     IF k = imageUrls[1]
     THEN [tweetUrl |-> imageUrls[1], imageUrls |-> imageUrls, timestamp |-> t]
     ELSE store[k]]

\* store.put({ tweetUrl, imageUrls, timestamp: Date.now() })
saveTweetUrlsToCache(store, tweetUrl, imageUrls, t) ==
  [k \in DOMAIN store \cup {tweetUrl} |->
     IF k = tweetUrl
     THEN [tweetUrl |-> tweetUrl, imageUrls |-> imageUrls, timestamp |-> t]
     ELSE store[k]]

\* The read that does not look at the age of the entry.
getImageFromCache_NoExpiry(store, url, t) ==
  IF url \in DOMAIN store THEN Value(store[url].blob) ELSE Null

\* getImageFromCache at time t.  A blob is truthy.
getImageFromCache(store, url, t) ==
  IF url \in DOMAIN store
  THEN IF IsExpired(t, store[url].timestamp) THEN Null ELSE Value(store[url].blob)
  ELSE Null

\* store.put({ url, blob, timestamp: Date.now() })
saveImageToCache(store, url, blob, t) ==
  [k \in DOMAIN store \cup {url} |->
     IF k = url THEN [url |-> url, blob |-> blob, timestamp |-> t] ELSE store[k]]

\* The body a download of url gives, and URL.createObjectURL of it.
BlobOf(url) == [bytes |-> url]
createObjectURL(blob) == "blob:" \o blob.bytes

(***************************************************************************)
(* The strategies.  An oEmbed html is kept as the src attributes of its    *)
(* img elements, the text a relay returns as the media URLs the regular    *)
(* expression matches in it, each a base and a query.                      *)
(***************************************************************************)
\* Array.from(new Set(list)): the first occurrences, in order.
RECURSIVE Dedupe(_)
Dedupe(list) ==
  IF list = <<>> THEN <<>>
  ELSE LET init == Dedupe(SubSeq(list, 1, Len(list) - 1))
           x == list[Len(list)]
       IN IF \E i \in 1..Len(init) : init[i] = x THEN init ELSE Append(init, x)

\* extractImgSrcsFromHTML: imgs.map(i => i.src).filter(Boolean), deduplicated
extractImgSrcsFromHTML(html) == Dedupe(SelectSeq(html, NonEmptyString))

\* A URL in a text is its site (scheme, host and directory), the name after
\* it, and its query.  mediaRegex matches the URLs of this site with a name.
MediaSite == "https://pbs.twimg.com/media/"

\* A match of every URL of the host pbs.twimg.com.
matchMedia_AnyDirectory(text) ==
  SelectSeq(text, LAMBDA u : u.site \in {MediaSite, "https://pbs.twimg.com/profile_images/"})

\* text.match(mediaRegex) || []
matchMedia(text) == SelectSeq(text, LAMBDA u : u.site = MediaSite /\ u.name # "")

\* `${u.split('?')[0]}?format=jpg&name=large`
CleanLarge(u) == u.site \o u.name \o "?format=jpg&name=large"

\* The proxies in another order.
Proxies_AllOriginsFirst ==
  <<"api.allorigins.win", "r.jina.ai", "cors-anywhere.herokuapp.com">>

\* The proxies of fetchTweetImagesViaProxy, in their order.
Proxies == <<"r.jina.ai", "api.allorigins.win", "cors-anywhere.herokuapp.com">>

\* The tweet URLs of the model: what the user types, and the status id in it.
PlainTweetUrl == "t1"
PaddedTweetUrl == " t1 "
KnownTweetUrl == "tk"

\* dayState.tweetUrl?.trim()
TrimTweetUrl(u) == IF u = PaddedTweetUrl THEN PlainTweetUrl ELSE u

\* tweetUrl.match(/\/status\/(\d+)/)
StatusId(tweetUrl) ==
  IF tweetUrl = KnownTweetUrl THEN "1973385010481606663"
  ELSE IF tweetUrl = PlainTweetUrl THEN "1"
  ELSE ""

knownImages ==
  [id \in {"1973385010481606663"} |->
     << "https://pbs.twimg.com/media/G2LfJa8WgAM9qkW?format=jpg&name=large",
        "https://pbs.twimg.com/media/G2LfJa1WkAACYAk?format=jpg&name=large",
        "https://pbs.twimg.com/media/G2LfJbEXMAA39wl?format=jpg&name=large",
        "https://pbs.twimg.com/media/G2LfJaxWMAABWFy?format=jpg&name=large" >>]

\* getKnownTweetImages
getKnownTweetImages(tweetUrl) ==
  IF StatusId(tweetUrl) # "" /\ StatusId(tweetUrl) \in DOMAIN knownImages
  THEN knownImages[StatusId(tweetUrl)]
  ELSE <<>>

\* What the network answers.  A fetch throws ("error"), answers with a
\* status that is not ok ("notOk"), with a body that cannot be read or used
\* ("badBody"), or with a body ("ok").
OembedResponses ==
  { [kind |-> "error"], [kind |-> "notOk"], [kind |-> "badBody"],
    [kind |-> "ok", html |-> <<>>],
    [kind |-> "ok", html |-> <<"e1", "", "e1">>] }

ProxyResponses ==
  { [kind |-> "error"], [kind |-> "notOk"], [kind |-> "badBody"],
    [kind |-> "ok", text |-> << [site |-> "https://example.com/", name |-> "x",
                                 query |-> ""] >>],
    [kind |-> "ok",
     text |-> << [site |-> MediaSite, name |-> "r2", query |-> "name=small"],
                 [site |-> "https://pbs.twimg.com/profile_images/", name |-> "p",
                  query |-> ""],
                 [site |-> MediaSite, name |-> "r1", query |-> "name=small"],
                 [site |-> MediaSite, name |-> "", query |-> ""],
                 [site |-> MediaSite, name |-> "r2", query |-> "name=small"],
                 [site |-> MediaSite, name |-> "r1", query |-> "name=large"] >>] }

ImageResponses == { [kind |-> "error"], [kind |-> "notOk"], [kind |-> "badBody"],
                    [kind |-> "ok"] }

\* The requests on the network.
OembedRequest(url) == [to |-> "publish.x.com/oembed", url |-> url]
ProxyRequest(k, url) == [to |-> Proxies[k], url |-> url]
ImageRequest(url) == [to |-> "image", url |-> url]

\* The requests fetchTweetImagesViaProxy sends when it comes to proxy k.
ProxyRequests_AllAtOnce(k, url) == {ProxyRequest(j, url) : j \in k..Len(Proxies)}

ProxyRequests(k, url) == {ProxyRequest(k, url)}

(***************************************************************************)
(* handleTweetFetch.  The button is disabled while loading.                *)
(***************************************************************************)
\* The frame at the start of the try block, awaiting getTweetUrlsFromCache.
\* dayId is the id of the record the handler closed over (dayState).
FetchFrame(url) ==
  [pc |-> "getTweetUrlsFromCache", url |-> url, images |-> <<>>, k |-> 0, i |-> 0,
   processedImages |-> <<>>, tried |-> <<"cache">>, from |-> "", thrown |-> FALSE,
   dayId |-> dayState.id]

handleTweetFetch ==
  /\ EffectsFlushed /\ ~loading
  /\ LET url == IF IsDefined(dayState) /\ "tweetUrl" \in DOMAIN dayState
                THEN TrimTweetUrl(dayState.tweetUrl) ELSE ""
     IN IF url # ""
        THEN /\ loading' = TRUE
             /\ oembedImgs' = <<>>
             /\ tweetFetch' = FetchFrame(url)
        ELSE UNCHANGED <<loading, oembedImgs, tweetFetch>>
  /\ last' = [op |-> "tweetFetch"]
  /\ UNCHANGED <<year, selectedDay, dayState, manualUrlsInput, allDaysCache,
                 prevImgCountRef, days, dbq, reader, caches, net, now, exported,
                 marks>>

\* The end of handleTweetFetch: finally { setLoading(false) }
FetchEnds(f) ==
  /\ loading' = FALSE
  /\ tweetFetch' = [f EXCEPT !.pc = "done"]

\* A catch with no finally after it: loading stays as it is.
FetchCatches_NoFinally(f) ==
  /\ tweetFetch' = [f EXCEPT !.pc = "done", !.thrown = TRUE]
  /\ UNCHANGED loading

\* catch (e) of the whole try block
FetchCatches(f) == FetchEnds([f EXCEPT !.thrown = TRUE])

\* The strategies gave images: saveTweetUrlsToCache(url, images) starts.
FetchSaves(f, list, from) ==
  tweetFetch' = [f EXCEPT !.pc = "saveTweetUrlsToCache", !.images = list,
                          !.from = from, !.tried = Append(f.tried, "save")]

\* 4) the loop over images starts: downloadAndCacheImage(images[1]) reads the cache.
FetchProcesses(f) ==
  tweetFetch' = [f EXCEPT !.pc = "getImageFromCache", !.i = 1]

\* getTweetUrlsFromCache settles.
FetchGetUrls ==
  /\ EffectsFlushed
  /\ tweetFetch.pc = "getTweetUrlsFromCache"
  /\ \E rejects \in BOOLEAN :
       LET f == tweetFetch
           cachedUrls == getTweetUrlsFromCache(urls, f.url, now)
       IN IF rejects
          THEN FetchCatches(f) /\ UNCHANGED net
          ELSE IF ~cachedUrls.null /\ Len(cachedUrls.v) > 0
          THEN /\ FetchProcesses([f EXCEPT !.images = cachedUrls.v, !.from = "cache"])
               /\ UNCHANGED <<loading, net>>
          ELSE /\ tweetFetch' = [f EXCEPT !.pc = "oembed",
                                          !.tried = Append(f.tried, "oembed")]
               /\ net' = net \cup {OembedRequest(f.url)}
               /\ UNCHANGED loading
  /\ last' = [op |-> "fetchGetUrls"]
  /\ UNCHANGED <<year, selectedDay, dayState, ui, prevImgCountRef, days, dbq, reader,
                 caches, now, exported, marks>>

\* A loop over the proxies that leaves out the second.
FetchAsksProxy_SkipsSecond(f, k, settled) ==
  LET j == IF k = 2 THEN 3 ELSE k IN
    /\ tweetFetch' = [f EXCEPT !.pc = "proxy", !.k = j,
                               !.tried = Append(f.tried, Proxies[j])]
    /\ net' = (net \ {settled}) \cup {ProxyRequest(j, f.url)}

\* The proxy k of fetchTweetImagesViaProxy is asked, the request before settled.
FetchAsksProxy(f, k, settled) ==
  /\ tweetFetch' = [f EXCEPT !.pc = "proxy", !.k = k,
                             !.tried = Append(f.tried, Proxies[k])]
  /\ net' = (net \ {settled}) \cup ProxyRequests(k, f.url)

\* The oEmbed request settles.
FetchOembed ==
  /\ EffectsFlushed
  /\ tweetFetch.pc = "oembed"
  /\ OembedRequest(tweetFetch.url) \in net
  /\ \E r \in OembedResponses :
       LET f == tweetFetch
           found == IF r.kind = "ok" THEN extractImgSrcsFromHTML(r.html) ELSE <<>>
       IN IF found # <<>>
          THEN /\ FetchSaves(f, found, "oembed")
               /\ net' = net \ {OembedRequest(f.url)}
               /\ last' = [op |-> "fetchOembed", found |-> found]
          ELSE /\ FetchAsksProxy(f, 1, OembedRequest(f.url))
               /\ last' = [op |-> "fetchOembed", found |-> <<>>]
  /\ UNCHANGED <<year, selectedDay, dayState, ui, prevImgCountRef, days, dbq, reader,
                 caches, loading, now, exported, marks>>

\* The request to proxy k settles; after the last proxy, the table.
FetchProxy ==
  /\ EffectsFlushed
  /\ tweetFetch.pc = "proxy"
  /\ ProxyRequest(tweetFetch.k, tweetFetch.url) \in net
  /\ \E r \in ProxyResponses :
       LET f == tweetFetch
           text == IF r.kind = "ok" THEN r.text ELSE <<>>
           found == Dedupe(matchMedia(text))
           large == [j \in 1..Len(found) |-> CleanLarge(found[j])]
           known == getKnownTweetImages(f.url)
       IN /\ last' = [op |-> "fetchProxy", kind |-> r.kind, found |-> large,
                      text |-> text]
          /\ IF found # <<>>
             THEN /\ FetchSaves(f, large, Proxies[f.k])
                  /\ net' = net \ {ProxyRequest(f.k, f.url)}
                  /\ UNCHANGED loading
             ELSE IF f.k < Len(Proxies)
             THEN /\ FetchAsksProxy(f, f.k + 1, ProxyRequest(f.k, f.url))
                  /\ UNCHANGED loading
             ELSE /\ net' = net \ {ProxyRequest(f.k, f.url)}
                  /\ IF known # <<>>
                     THEN /\ FetchSaves([f EXCEPT !.tried = Append(f.tried, "table")],
                                        known, "table")
                          /\ UNCHANGED loading
                     ELSE FetchEnds([f EXCEPT !.tried = Append(f.tried, "table")])
  /\ UNCHANGED <<year, selectedDay, dayState, ui, prevImgCountRef, days, dbq, reader,
                 caches, now, exported, marks>>

\* saveTweetUrlsToCache settles.
FetchSaveUrls ==
  /\ EffectsFlushed
  /\ tweetFetch.pc = "saveTweetUrlsToCache"
  /\ \E rejects \in BOOLEAN :
       LET f == tweetFetch IN
         IF rejects
         THEN FetchCatches(f) /\ UNCHANGED urls
         ELSE /\ urls' = saveTweetUrlsToCache(urls, f.url, f.images, now)
              /\ FetchProcesses(f)
              /\ UNCHANGED loading
  /\ last' = [op |-> "fetchSaveUrls"]
  /\ UNCHANGED <<year, selectedDay, dayState, ui, prevImgCountRef, days, dbq, reader,
                 images, net, now, exported, marks>>

\* A loop that a failed image ends: the error goes to the catch of the whole.
FetchPushes_FailureAborts(f, x) ==
  LET processedImages == Append(f.processedImages, x) IN
    IF x = f.images[f.i]
    THEN FetchCatches(f) /\ UNCHANGED oembedImgs
    ELSE IF f.i < Len(f.images)
    THEN /\ tweetFetch' = [f EXCEPT !.pc = "getImageFromCache", !.i = f.i + 1,
                                    !.processedImages = processedImages]
         /\ UNCHANGED <<loading, oembedImgs>>
    ELSE /\ oembedImgs' = processedImages
         /\ FetchEnds([f EXCEPT !.processedImages = processedImages])

\* downloadAndCacheImage(images[i]) returned x: processedImages.push(x); the
\* loop goes on, or ends with setOembedImgs(processedImages).
FetchPushes(f, x) ==
  LET processedImages == Append(f.processedImages, x) IN
    IF f.i < Len(f.images)
    THEN /\ tweetFetch' = [f EXCEPT !.pc = "getImageFromCache", !.i = f.i + 1,
                                    !.processedImages = processedImages]
         /\ UNCHANGED <<loading, oembedImgs>>
    ELSE /\ oembedImgs' = processedImages
         /\ FetchEnds([f EXCEPT !.processedImages = processedImages])

\* getImageFromCache(images[i]) settles.
FetchGetImage ==
  /\ EffectsFlushed
  /\ tweetFetch.pc = "getImageFromCache"
  /\ \E rejects \in BOOLEAN :
       LET f == tweetFetch
           url == f.images[f.i]
           cachedBlob == getImageFromCache(images, url, now)
       IN IF rejects
          THEN /\ FetchPushes(f, url)
               /\ last' = [op |-> "fetchGetImage", read |-> "rejected"]
               /\ UNCHANGED net
          ELSE IF ~cachedBlob.null
          THEN /\ FetchPushes(f, createObjectURL(cachedBlob.v))
               /\ last' = [op |-> "fetchGetImage", read |-> "hit"]
               /\ UNCHANGED net
          ELSE /\ tweetFetch' = [f EXCEPT !.pc = "download"]
               /\ net' = net \cup {ImageRequest(url)}
               /\ last' = [op |-> "fetchGetImage", read |-> "miss"]
               /\ UNCHANGED <<loading, oembedImgs>>
  /\ UNCHANGED <<year, selectedDay, dayState, manualUrlsInput, allDaysCache,
                 prevImgCountRef, days, dbq, reader, caches, now, exported, marks>>

\* fetch(images[i]) and response.blob() settle.
FetchDownload ==
  /\ EffectsFlushed
  /\ tweetFetch.pc = "download"
  /\ ImageRequest(tweetFetch.images[tweetFetch.i]) \in net
  /\ \E r \in ImageResponses :
       LET f == tweetFetch
           url == f.images[f.i]
       IN /\ last' = [op |-> "fetchDownload", kind |-> r.kind]
          /\ IF r.kind = "ok"
             THEN /\ tweetFetch' = [f EXCEPT !.pc = "saveImageToCache"]
                  /\ UNCHANGED <<loading, oembedImgs>>
             ELSE FetchPushes(f, url)
  /\ net' = net \ {ImageRequest(tweetFetch.images[tweetFetch.i])}
  /\ UNCHANGED <<year, selectedDay, dayState, manualUrlsInput, allDaysCache,
                 prevImgCountRef, days, dbq, reader, caches, now, exported, marks>>

\* saveImageToCache(images[i], blob) settles.
FetchSaveImage ==
  /\ EffectsFlushed
  /\ tweetFetch.pc = "saveImageToCache"
  /\ \E rejects \in BOOLEAN :
       LET f == tweetFetch
           url == f.images[f.i]
           blob == BlobOf(url)
       IN /\ last' = [op |-> "fetchSaveImage", rejected |-> rejects]
          /\ IF rejects
             THEN FetchPushes(f, url) /\ UNCHANGED images
             ELSE /\ images' = saveImageToCache(images, url, blob, now)
                  /\ FetchPushes(f, createObjectURL(blob))
  /\ UNCHANGED <<year, selectedDay, dayState, manualUrlsInput, allDaysCache,
                 prevImgCountRef, days, dbq, reader, urls, net, now, exported, marks>>

\* Time passes.
ClockAdvances ==
  /\ \E t \in Instants : t > now /\ now' = t
  /\ last' = [op |-> "clock"]
  /\ UNCHANGED <<year, selectedDay, dayState, ui, prevImgCountRef, days, dbq, reader,
                 caches, loading, tweetFetch, net, exported, marks>>

(***************************************************************************)
(* The helpers, called on their own.                                       *)
(***************************************************************************)
\* The years idFor is called with; the days are those of October.
IdForYears == {0, 2, 20, 202, 2025, 20251}

idForCalled(y, d) ==
  /\ last' = [op |-> "idFor", year |-> y, day |-> d, id |-> idFor(y, d)]
  /\ UNCHANGED <<year, selectedDay, dayState, ui, prevImgCountRef, days, dbq, reader,
                 caches, resolver, exported, marks>>

\* The prompts of the month, in the order of the days (hyphens and
\* apostrophes in their ASCII form).
PROMPTS ==
  <<
     "Lightsaber Duel (Star Wars)",
     "Hobbiton at Dawn (LotR)",
     "Neo Dodging Bullets (Matrix)",
     "Jurassic Jungle (Jurassic Park)",
     "Mad Max Wasteland",
     "Cartoon Gotham (Batman retro)",
     "Kaiju Attack (Godzilla)",
     "Ecto-1 in Action (Ghostbusters)",
     "Cyberpunk Tokyo (Akira/Blade Runner)",
     "Back to the Future Hoverboard",
     "Wakanda Skyline (Black Panther)",
     "Arcade Stranger Things",
     "Quidditch Match (Harry Potter)",
     "Indiana Jones Temple Trap",
     "Spider-Verse Mashup",
     "The Shining Hallway",
     "Kaer Morhen Training (The Witcher)",
     "Dune Sandworms",
     "Studio Ghibli Feast",
     "Ghostly Hotel (Resplandor vibes)",
     "Treasure Planet Ship",
     "Pirates of the Caribbean Duel",
     "Pacific Rim Jaeger Battle",
     "Classic Universal Monsters",
     "Toy Story Western Scene",
     "Cybernetic Samurai (Kurosawa + Sci-Fi)",
     "Disney Villains Tea Party",
     "Alien Facehugger Encounter",
     "Marvel Zombies",
     "Tim Burton's Wonderland",
     "Cinematic Halloween Crossover"
  >>

\* The index that takes the selected day itself, not the day before it.
idx_NoOffset ==
  LET atLeast0 == IF selectedDay > 0 THEN selectedDay ELSE 0
  IN IF atLeast0 < Len(PROMPTS) - 1 THEN atLeast0 ELSE Len(PROMPTS) - 1

\* const idx = Math.min(Math.max(selectedDay - 1, 0), PROMPTS.length - 1)
idx ==
  LET atLeast0 == IF selectedDay - 1 > 0 THEN selectedDay - 1 ELSE 0
  IN IF atLeast0 < Len(PROMPTS) - 1 THEN atLeast0 ELSE Len(PROMPTS) - 1

\* PROMPTS[idx]: JavaScript counts the elements from 0.
promptText == PROMPTS[idx + 1]

\* The version openDB asks for, and the object stores it wants.
DB_VERSION == 2
STORE_NAMES == {"days", "images", "urls"}

\* The upgrade that deletes what is there and creates the three stores anew.
onupgradeneeded_Recreates(stores) == [n \in STORE_NAMES |-> EmptyStore]

\* req.onupgradeneeded: each store is created only if the database does not
\* contain it; stores holds the object stores of the database by name.
onupgradeneeded(stores) ==
  [n \in DOMAIN stores \cup STORE_NAMES |->
     IF n \in DOMAIN stores THEN stores[n] ELSE EmptyStore]

\* indexedDB.open(DB_NAME, DB_VERSION) on the database db: the upgrade runs when
\* the database is older, and the request fails when it is newer.
openDB(db) ==
  IF db.version > DB_VERSION THEN [rejected |-> TRUE, db |-> db]
  ELSE IF db.version < DB_VERSION
       THEN [rejected |-> FALSE,
             db |-> [version |-> DB_VERSION, stores |-> onupgradeneeded(db.stores)]]
       ELSE [rejected |-> FALSE, db |-> db]

\* The contents a days store may have: no record, the default one or a done one
\* for each of two days.
OldDayRecords(d) ==
  {DefaultDayState(Year, d),
   Spread(DefaultDayState(Year, d), [done |-> TRUE, tweetUrl |-> PlainTweetUrl])}

OldDayStores ==
  {EmptyStore}
    \cup {Put(EmptyStore, r) : r \in OldDayRecords(1) \cup OldDayRecords(2)}
    \cup {Put(Put(EmptyStore, r1), r2) : r1 \in OldDayRecords(1), r2 \in OldDayRecords(2)}

OldImageStores ==
  {EmptyStore, saveImageToCache(EmptyStore, "e1", BlobOf("e1"), 0),
   saveImageToCache(EmptyStore, "e1", BlobOf("e1"), TTL)}

OldUrlStores == {EmptyStore, saveTweetUrlsToCache(EmptyStore, PlainTweetUrl, <<"e1">>, 0)}

\* The databases a browser may hold: none yet (version 0), the one made by the
\* build with DB_VERSION 1 (src/index.js), the one made by this build, and one
\* made by a later build.
Databases ==
  {[version |-> 0, stores |-> <<>>]}
    \cup {[version |-> 1, stores |-> [n \in {"days"} |-> d]] : d \in OldDayStores}
    \cup {[version |-> v, stores |-> [days |-> d, images |-> i, urls |-> u]] :
            v \in {DB_VERSION, DB_VERSION + 1},
            d \in OldDayStores, i \in OldImageStores, u \in OldUrlStores}

openDBCalled(db) ==
  /\ last' = [op |-> "openDB", before |-> db, rejected |-> openDB(db).rejected,
              after |-> openDB(db).db]
  /\ UNCHANGED <<year, selectedDay, dayState, ui, prevImgCountRef, days, dbq, reader,
                 caches, resolver, exported, marks>>

\* The upgrade handler run on its own on a database.
onupgradeneededCalled(db) ==
  /\ last' = [op |-> "onupgradeneeded", before |-> db,
              after |-> [version |-> db.version, stores |-> onupgradeneeded(db.stores)]]
  /\ UNCHANGED <<year, selectedDay, dayState, ui, prevImgCountRef, days, dbq, reader,
                 caches, resolver, exported, marks>>

(***************************************************************************)
(* Specifications.  Each takes the steps of one part of the application;   *)
(* the effect and the completions of storage operations are in all.        *)
(***************************************************************************)
\* Editing the days: calendar, checkbox, tweet URL field, manual URL box.
Next ==
  \/ \E d \in Days : SelectDay(d)
  \/ toggleDone
  \/ \E i \in 1..Len(TweetUrls) : EditTweetUrl(TweetUrls[i])
  \/ \E i \in 1..Len(ManualTexts) : TypeManualUrls(ManualTexts[i])
  \/ handleManualUrlsSave
  \/ ClearManualUrls
  \/ AutoCompleteEffect
  \/ LoadGetDay
  \/ LoadGetAllDays
  \/ PersistSetDay

Spec == Init /\ [][Next]_vars

\* Editing, and persist called with the empty patch.
NextPatch ==
  \/ \E d \in Days : SelectDay(d)
  \/ toggleDone
  \/ \E i \in 1..Len(ManualTexts) : TypeManualUrls(ManualTexts[i])
  \/ handleManualUrlsSave
  \/ PersistEmpty
  \/ AutoCompleteEffect
  \/ LoadGetDay
  \/ LoadGetAllDays
  \/ PersistSetDay

SpecPatch == Init /\ [][NextPatch]_vars

\* Import of documents from outside, among day switches, the checkbox and
\* saves of the manual URL box.
NextImport ==
  \/ \E d \in Days : SelectDay(d)
  \/ toggleDone
  \/ handleManualUrlsSave
  \/ ImportPicked
  \/ ImportOnload
  \/ ImportPut
  \/ ImportGetDay
  \/ ImportGetAllDays
  \/ AutoCompleteEffect
  \/ LoadGetDay
  \/ LoadGetAllDays
  \/ PersistSetDay

SpecImport == Init /\ [][NextImport]_vars

\* Export and import of the exported document, the store filled by the
\* checkbox and by a document from outside.
NextExport ==
  \/ \E d \in Days : SelectDay(d)
  \/ toggleDone
  \/ handleImport(FileRecords)
  \/ handleExport
  \/ ExportGetAllDays
  \/ ImportExported
  \/ ImportOnload
  \/ ImportPut
  \/ ImportGetDay
  \/ ImportGetAllDays
  \/ AutoCompleteEffect
  \/ LoadGetDay
  \/ LoadGetAllDays
  \/ PersistSetDay

SpecExport == Init /\ [][NextExport]_vars

\* The cache-clear, among edits.
NextClear ==
  \/ \E d \in Days : SelectDay(d)
  \/ toggleDone
  \/ \E i \in 1..Len(ManualTexts) : TypeManualUrls(ManualTexts[i])
  \/ handleManualUrlsSave
  \/ handleClearCache
  \/ clearImageCache
  \/ clearUrlsCache
  \/ ClearSetDay
  \/ AutoCompleteEffect
  \/ LoadGetDay
  \/ LoadGetAllDays
  \/ PersistSetDay

SpecClear == Init /\ [][NextClear]_vars

\* Editing, with writes of the days store that fail.
NextStorage ==
  \/ \E d \in Days : SelectDay(d)
  \/ toggleDone
  \/ \E i \in 1..Len(TweetUrls) : EditTweetUrl(TweetUrls[i])
  \/ \E i \in 1..Len(ManualTexts) : TypeManualUrls(ManualTexts[i])
  \/ handleManualUrlsSave
  \/ AutoCompleteEffect
  \/ LoadGetDay
  \/ LoadGetAllDays
  \/ PersistSetDay
  \/ PersistSetDayFails

SpecStorage == Init /\ [][NextStorage]_vars

\* The tweet URLs typed in the scenarios of the resolution.
ResolveUrls == <<PlainTweetUrl, PaddedTweetUrl, KnownTweetUrl>>

\* The resolution of tweet images, among edits of the tweet URL.
NextResolve ==
  \/ \E i \in 1..Len(ResolveUrls) : EditTweetUrl(ResolveUrls[i])
  \/ handleTweetFetch
  \/ FetchGetUrls
  \/ FetchOembed
  \/ FetchProxy
  \/ FetchSaveUrls
  \/ FetchGetImage
  \/ FetchDownload
  \/ FetchSaveImage
  \/ AutoCompleteEffect
  \/ LoadGetDay
  \/ LoadGetAllDays
  \/ PersistSetDay

SpecResolve == Init /\ [][NextResolve]_vars

\* The resolution of tweet images while the user goes from day to day.
NextSwitch ==
  \/ \E d \in Days : SelectDay(d)
  \/ EditTweetUrl(PlainTweetUrl)
  \/ handleTweetFetch
  \/ FetchGetUrls
  \/ FetchOembed
  \/ FetchProxy
  \/ FetchSaveUrls
  \/ FetchGetImage
  \/ FetchDownload
  \/ FetchSaveImage
  \/ AutoCompleteEffect
  \/ LoadGetDay
  \/ LoadGetAllDays
  \/ PersistSetDay

SpecSwitch == Init /\ [][NextSwitch]_vars

\* The resolution of tweet images while time passes.
NextExpiry ==
  \/ EditTweetUrl(PlainTweetUrl)
  \/ EditTweetUrl(PaddedTweetUrl)
  \/ handleTweetFetch
  \/ FetchGetUrls
  \/ FetchOembed
  \/ FetchProxy
  \/ FetchSaveUrls
  \/ FetchGetImage
  \/ FetchDownload
  \/ FetchSaveImage
  \/ ClockAdvances
  \/ AutoCompleteEffect
  \/ LoadGetDay
  \/ LoadGetAllDays
  \/ PersistSetDay

SpecExpiry == Init /\ [][NextExpiry]_vars

\* The image cache over time: resolutions, the clock and the cache-clear.
NextImageCache ==
  \/ EditTweetUrl(PlainTweetUrl)
  \/ handleTweetFetch
  \/ FetchGetUrls
  \/ FetchOembed
  \/ FetchProxy
  \/ FetchSaveUrls
  \/ FetchGetImage
  \/ FetchDownload
  \/ FetchSaveImage
  \/ ClockAdvances
  \/ handleClearCache
  \/ clearImageCache
  \/ clearUrlsCache
  \/ ClearSetDay
  \/ AutoCompleteEffect
  \/ LoadGetDay
  \/ LoadGetAllDays
  \/ PersistSetDay

SpecImageCache == Init /\ [][NextImageCache]_vars

\* Two tweet URLs resolved again and again.  Every awaited operation of the
\* resolution settles, and React runs the pending effect.
NextSettling ==
  \/ EditTweetUrl(PlainTweetUrl)
  \/ EditTweetUrl(KnownTweetUrl)
  \/ handleTweetFetch
  \/ FetchGetUrls
  \/ FetchOembed
  \/ FetchProxy
  \/ FetchSaveUrls
  \/ FetchGetImage
  \/ FetchDownload
  \/ FetchSaveImage
  \/ AutoCompleteEffect
  \/ LoadGetDay
  \/ LoadGetAllDays
  \/ PersistSetDay

SpecSettling ==
  /\ Init /\ [][NextSettling]_vars
  /\ WF_vars(AutoCompleteEffect)
  /\ WF_vars(FetchGetUrls) /\ WF_vars(FetchOembed) /\ WF_vars(FetchProxy)
  /\ WF_vars(FetchSaveUrls) /\ WF_vars(FetchGetImage) /\ WF_vars(FetchDownload)
  /\ WF_vars(FetchSaveImage)

\* The manual URL box: any text typed, and saved.
NextManual ==
  \/ \E text \in TextsAfterKey(manualUrlsInput) : TypeManualUrls(text)
  \/ handleManualUrlsSave
  \/ AutoCompleteEffect
  \/ LoadGetDay
  \/ LoadGetAllDays
  \/ PersistSetDay

SpecManual == Init /\ [][NextManual]_vars

\* Resolved images and manual URLs together: a resolution, and the import
\* of a document with manual URLs.
NextEffective ==
  \/ EditTweetUrl(PlainTweetUrl)
  \/ handleImport(FileBlankUrl)
  \/ ImportOnload
  \/ ImportPut
  \/ ImportGetDay
  \/ ImportGetAllDays
  \/ handleTweetFetch
  \/ FetchGetUrls
  \/ FetchOembed
  \/ FetchProxy
  \/ FetchSaveUrls
  \/ FetchGetImage
  \/ FetchDownload
  \/ FetchSaveImage
  \/ AutoCompleteEffect
  \/ LoadGetDay
  \/ LoadGetAllDays
  \/ PersistSetDay

SpecEffective == Init /\ [][NextEffective]_vars

\* idFor called with any of the years and any day of October.
NextIdFor == \E y \in IdForYears, d \in 1..31 : idForCalled(y, d)

SpecIdFor == Init /\ [][NextIdFor]_vars

\* Any day of October selected in the calendar, and its loads.
NextPrompts ==
  \/ \E d \in 1..Len(PROMPTS) : SelectDay(d)
  \/ LoadGetDay
  \/ LoadGetAllDays

SpecPrompts == Init /\ [][NextPrompts]_vars

\* The database opened, and its upgrade handler run, on any of the databases.
NextOpenDB ==
  \/ \E db \in Databases : openDBCalled(db)
  \/ \E db \in Databases : onupgradeneededCalled(db)

SpecOpenDB == Init /\ [][NextOpenDB]_vars

(***************************************************************************)
(* Properties of the day state manager.                                    *)
(***************************************************************************)
\* The step is a run of the auto-completion effect that called persist.
AutoPatchIssued == last'.op = "autoEffect" /\ Len(dbq') = Len(dbq) + 1

\* C1: the auto-completion rule is edge-triggered.  prevImgCountRef is the
\* image count the rule saw last and Len(allImages) the count now.  When the
\* count has become positive from zero with a record loaded whose done is
\* false, the rule issues exactly one patch, { done: true }, on that record;
\* it issues a patch in no other case, so none on a further increase or on a
\* decrease that stays above zero.
C1_EdgeTriggered ==
  [][ /\ (prevImgCountRef = 0 /\ Len(allImages) > 0
            /\ IsDefined(dayState) /\ ~DoneOf(dayState))
         => /\ AutoPatchIssued
            /\ dbq'[Len(dbq')].kind = "persist"
            /\ dbq'[Len(dbq')].partial = [done |-> TRUE]
            /\ dbq'[Len(dbq')].next = [dayState EXCEPT !.done = TRUE]
            /\ SubSeq(dbq', 1, Len(dbq)) = dbq
            /\ dayState' = [dayState EXCEPT !.done = TRUE]
      /\ AutoPatchIssued
         => /\ prevImgCountRef = 0 /\ Len(allImages) > 0
            /\ IsDefined(dayState) /\ ~DoneOf(dayState)
      /\ (prevImgCountRef > 0 /\ Len(allImages) > 0) => ~AutoPatchIssued
    ]_vars

\* C1 happens: the rule has just patched a record on its first image, and
\* the write is pending.
C1_Witness ==
  /\ last.op = "autoEffect"
  /\ dbq # <<>> /\ dbq[Len(dbq)].kind = "persist"
  /\ dbq[Len(dbq)].partial = [done |-> TRUE]
  /\ prevImgCountRef > 0
  /\ DoneOf(dayState)

\* C2: a manual un-mark is never reverted.  Once the rule has set done on a
\* record and the user has then unchecked it by hand (the record's id is in
\* unmarked), the rule never patches that record again.
C2_UnmarkNeverReverted ==
  [][AutoPatchIssued => dayState.id \notin unmarked]_vars

\* C3: loading a (year, day) that has no record in the days store sets the
\* current record to the default: id = idFor(year, day), that year and day,
\* done false, tweetUrl and manualImageUrls empty; the load writes nothing to
\* the days store.
C3_LoadUnseenGivesDefault ==
  [][ (last'.op = "loadDay" /\ idFor(last'.year, last'.day) \notin DOMAIN days)
      => /\ dayState' = [id |-> idFor(last'.year, last'.day), year |-> last'.year,
                         day |-> last'.day, done |-> FALSE, tweetUrl |-> "",
                         manualImageUrls |-> <<>>]
         /\ days' = days
    ]_vars

\* C3 happens: a day without a record has been loaded while the store holds
\* the record of another day.
C3_Witness ==
  /\ last.op = "loadDay"
  /\ idFor(last.year, last.day) \notin DOMAIN days
  /\ days # EmptyStore
  /\ dayState.id = idFor(last.year, last.day)

\* C4: the empty patch is idempotent on the store.  When the write of
\* persist({}) completes and the store held, under the current record's id,
\* the record as it was current when persist was called, the days store is
\* left as it was, in every record and every field.
C4_EmptyPatchIdempotent ==
  [][ (/\ last'.op = "setDay"
       /\ DOMAIN last'.frame.partial = {}
       /\ last'.frame.dayState.id \in DOMAIN days
       /\ days[last'.frame.dayState.id] = last'.frame.dayState)
      => days' = days
    ]_vars

\* C4 happens: the empty patch has been written over a persisted record
\* that has images and is done.
C4_Witness ==
  /\ last.op = "setDay"
  /\ DOMAIN last.frame.partial = {}
  /\ last.frame.dayState.id \in DOMAIN days
  /\ days[last.frame.dayState.id] = last.frame.dayState
  /\ last.frame.dayState.done
  /\ last.frame.dayState.manualImageUrls # <<>>

(***************************************************************************)
(* Properties of export and import.                                        *)
(***************************************************************************)
\* C5: import(export()) is a round trip.  Importing the exported document
\* into the store it was exported from leaves the days store as it was:
\* the same ids with the same field values.  Importing it into an empty
\* store gives the exported store again, and does not throw.
C5_ExportImportRoundTrip ==
  /\ [][ (/\ last'.op \in {"importPut", "importPutError"}
          /\ last'.json = exportFile
          /\ days = exportedDays)
         => (last'.op = "importPut" /\ days' = days)
       ]_vars
  /\ [](exportFile # NoFile
          => /\ ~PutThrows(ImportList(exportFile))
             /\ ImportPutAll(EmptyStore, ImportList(exportFile)) = exportedDays)

\* C5 happens: the exported document has been imported into the store it
\* was exported from, which holds several records, one with an extra field.
C5_Witness ==
  /\ last.op = "importPut"
  /\ last.json = exportFile
  /\ days = exportedDays
  /\ Cardinality(DOMAIN days) >= 2
  /\ \E k \in DOMAIN days : "note" \in DOMAIN days[k] /\ days[k].manualImageUrls # <<>>

\* C6: persist(partial) is a merge-patch.  The record it writes is stored
\* under the record's id, has the fields of the current record and of the
\* patch, the patch's value in every field the patch names and the current
\* record's value in every other field, extra fields that came in through
\* an import among them; no other record of the store changes.
C6_MergePatchKeepsFields ==
  [][ last'.op = "setDay"
      => LET current == last'.frame.dayState
             partial == last'.frame.partial
             key == IF "id" \in DOMAIN partial THEN partial.id ELSE current.id
         IN /\ DOMAIN days' = DOMAIN days \cup {key}
            /\ DOMAIN days'[key] = DOMAIN current \cup DOMAIN partial
            /\ \A f \in DOMAIN partial : days'[key][f] = partial[f]
            /\ \A f \in DOMAIN current \ DOMAIN partial : days'[key][f] = current[f]
            /\ \A k \in DOMAIN days \ {key} : days'[k] = days[k]
    ]_vars

\* C6 happens: a patch of manualImageUrls has been written on a record with
\* the extra field note, which had other values in done and manualImageUrls.
C6_Witness ==
  /\ last.op = "setDay"
  /\ "note" \in DOMAIN last.frame.dayState
  /\ DOMAIN last.frame.partial = {"manualImageUrls"}
  /\ last.frame.dayState.manualImageUrls # last.frame.partial.manualImageUrls
  /\ last.frame.dayState.done
  /\ days[last.frame.dayState.id].note = "n"

\* C7: in every reachable state the days store holds at most one record
\* for each (year, day) pair.
C7_OneRecordPerDay ==
  \A k1, k2 \in DOMAIN days :
    (days[k1].year = days[k2].year /\ days[k1].day = days[k2].day) => k1 = k2

\* The ids of the records of a list of the document, and the last record of
\* the list with a given id.
IdsOf(list) == {list.v[i].v.id.v : i \in 1..Len(list.v)}

LastWithId(list, id) ==
  list.v[CHOOSE i \in 1..Len(list.v) :
           /\ list.v[i].v.id.v = id
           /\ \A j \in (i + 1)..Len(list.v) : list.v[j].v.id.v # id]

\* The record a node of the document describes, field by field.
RecordOf(node) ==
  [f \in DOMAIN node.v |->
     IF node.v[f].t = "array"
     THEN [i \in 1..Len(node.v[f].v) |-> node.v[f].v[i].v]
     ELSE node.v[f].v]

\* C8: import upserts by id and deletes nothing.  When the document's data
\* is a list of records with ids, the transaction leaves in the store, under
\* each id of the list, the record of the list with that id; every record
\* whose id is not in the list is still there, unchanged; no other key
\* appears.  The import then goes on to reload the current record with
\* getDay and the aggregate index with getAllDays: the current record
\* becomes what the store holds for the (year, day) of the import, and the
\* index holds for every day of the store a record of the store of that day.
C8_ImportUpserts ==
  [][ /\ (/\ dbq # <<>> /\ Head(dbq).kind = "import" /\ Head(dbq).pc = "put"
          /\ last'.op \in {"importPut", "importPutError"}
          /\ Head(dbq).list.t = "array"
          /\ \A i \in 1..Len(Head(dbq).list.v) :
               Head(dbq).list.v[i].t = "object" /\ "id" \in DOMAIN Head(dbq).list.v[i].v)
         => LET list == Head(dbq).list IN
              /\ last'.op = "importPut"
              /\ DOMAIN days' = DOMAIN days \cup IdsOf(list)
              /\ \A id \in IdsOf(list) : days'[id] = RecordOf(LastWithId(list, id))
              /\ \A k \in DOMAIN days \ IdsOf(list) : days'[k] = days[k]
              /\ dbq' # <<>> /\ Head(dbq').kind = "import" /\ Head(dbq').pc = "getDay"
              /\ Head(dbq').year = Head(dbq).year
              /\ Head(dbq').selectedDay = Head(dbq).selectedDay
      /\ last'.op = "importGetDay"
         => /\ days' = days
            /\ dayState' = IF idFor(last'.year, last'.day) \in DOMAIN days
                           THEN days[idFor(last'.year, last'.day)] ELSE Undefined
            /\ dbq' # <<>> /\ Head(dbq').kind = "import" /\ Head(dbq').pc = "getAllDays"
      /\ last'.op = "importAllDays"
         => /\ days' = days
            /\ DOMAIN allDaysCache' = {days[k].day : k \in DOMAIN days}
            /\ \A d \in DOMAIN allDaysCache' :
                 \E k \in DOMAIN days : days[k].day = d /\ allDaysCache'[d] = days[k]
    ]_vars

\* C8 happens: an import has put its two records into a store that held a
\* record of another day, which is still there, and has reloaded the
\* current record and the index.
C8_Witness ==
  /\ last.op = "importAllDays"
  /\ ForeignId \in DOMAIN days
  /\ idFor(Year, 1) \in DOMAIN days /\ "note" \in DOMAIN days[idFor(Year, 1)]
  /\ idFor(Year, 2) \in DOMAIN days
  /\ 2 \in DOMAIN allDaysCache

\* Whether the data field of a document is missing or is no list of records.
DataMissingOrMalformed(json) ==
  \/ json.t # "object"
  \/ "data" \notin DOMAIN json.v
  \/ json.v.data.t # "array"
  \/ \E i \in 1..Len(json.v.data.v) : json.v.data.v[i].t # "object"

\* C9: importing a document whose data field is missing or malformed
\* behaves as the import of an empty list: the operation does not fail, the
\* days store is unchanged and the import goes on to the reload of the
\* current record and of the aggregate index.
C9_MalformedDataAsEmpty ==
  [][ (/\ dbq # <<>> /\ Head(dbq).kind = "import" /\ Head(dbq).pc = "put"
       /\ last'.op \in {"importPut", "importPutError"}
       /\ DataMissingOrMalformed(Head(dbq).json))
      => /\ last'.op = "importPut"
         /\ days' = days
         /\ dbq' # <<>> /\ Head(dbq').kind = "import" /\ Head(dbq').pc = "getDay"
    ]_vars

(***************************************************************************)
(* Properties of the aggregate day index.                                  *)
(***************************************************************************)
\* The index agrees with the store: every entry is a record of the store
\* of that day, and every day that has a record in the store has an entry.
CacheAgrees ==
  /\ \A d \in DOMAIN allDaysCache :
       \E k \in DOMAIN days : days[k].day = d /\ days[k] = allDaysCache[d]
  /\ \A k \in DOMAIN days : days[k].day \in DOMAIN allDaysCache

\* C10: when an operation that writes the days store has completed (the
\* write of a patch, an import with its reload, the reset of the current day
\* by the cache-clear), allDaysCache agrees with the days store.
C10_CacheAgreesAfterWrite ==
  last.op \in {"setDay", "importAllDays", "clearSetDay"} => CacheAgrees

(***************************************************************************)
(* Properties of failing storage and of the resolution of tweet images.    *)
(***************************************************************************)
\* C11: when the write of a patch to the days store fails, the record in
\* memory is the one persist patched (dayState before the patch, while the
\* same day is shown) and the index of all days is what it was.
C11_FailedWriteLeavesState ==
  [][ last'.op = "setDayError"
        => /\ allDaysCache' = allDaysCache
           /\ (IsDefined(dayState') /\ dayState'.id = last'.frame.dayState.id)
                => dayState' = last'.frame.dayState ]_vars

\* The urls store holds for the source URL a list not older than the TTL.
HoldsFreshList(url) == url \in DOMAIN urls /\ now - urls[url].timestamp <= TTL

\* The step is the lookup in the urls store with which a resolution begins.
CacheLookup == last'.op = "fetchGetUrls"

\* The resolution goes on with the cached list and asks nothing else.
UsesCachedList ==
  /\ tweetFetch'.pc = "getImageFromCache"
  /\ tweetFetch'.images = urls[tweetFetch.url].imageUrls
  /\ tweetFetch'.from = "cache"
  /\ net' = net

\* The resolution goes on with the first strategy, the oEmbed request.
RunsChain ==
  /\ tweetFetch'.pc = "oembed"
  /\ OembedRequest(tweetFetch.url) \in net'

\* A resolution that took its list from the cache tried no strategy, and no
\* step of it writes the urls store.
CachedResolutionAsksNothing ==
  (tweetFetch'.pc # "idle" /\ tweetFetch'.from = "cache")
    => tweetFetch'.tried = <<"cache">> /\ urls' = urls

ChainOrder ==
  <<"cache", "oembed", "r.jina.ai", "api.allorigins.win",
    "cors-anywhere.herokuapp.com", "table">>

\* The strategies a resolution has attempted so far, in the order of the attempts.
Attempted(f) == SelectSeq(f.tried, LAMBDA x : x # "save")

IsPrefix(a, b) == Len(a) <= Len(b) /\ a = SubSeq(b, 1, Len(a))

\* The step is the end of the oEmbed request or of the request to a proxy.
StrategySettles == last'.op \in {"fetchOembed", "fetchProxy"}

\* C13: the strategies are attempted in the order oEmbed, r.jina.ai,
\* allorigins, cors-anywhere, table; the next one is attempted exactly when
\* the one that settles gave no image; a strategy that gives images ends the
\* chain, and its list stays the list of the resolution.
C13_StrategyOrder ==
  [][ tweetFetch'.pc # "idle" =>
        /\ IsPrefix(Attempted(tweetFetch'), ChainOrder)
        /\ StrategySettles =>
             /\ Attempted(tweetFetch') # Attempted(tweetFetch) <=> last'.found = <<>>
             /\ last'.found # <<>> =>
                  /\ tweetFetch'.images = last'.found
                  /\ tweetFetch'.from = tweetFetch.tried[Len(tweetFetch.tried)]
             /\ last'.found = <<>> =>
                  \/ tweetFetch'.images = <<>>
                  \/ /\ tweetFetch'.from = "table"
                     /\ tweetFetch.tried[Len(tweetFetch.tried)] = ChainOrder[5]
        /\ (tweetFetch.pc # "idle" /\ tweetFetch.images # <<>>
              /\ last'.op # "tweetFetch")
             => tweetFetch'.images = tweetFetch.images ]_vars

\* A resolution went through every strategy and took its list from the table.
C13_Witness ==
  /\ tweetFetch.pc = "done" /\ tweetFetch.from = "table"
  /\ Attempted(tweetFetch) = ChainOrder
  /\ Len(oembedImgs) = Len(tweetFetch.images) /\ oembedImgs # <<>>

\* The resolution has a list from the chain and is past the write of it.
PastSaveOfChainList ==
  /\ tweetFetch.pc \in {"getImageFromCache", "download", "saveImageToCache", "done"}
  /\ tweetFetch.from \in {"oembed", "table"} \cup {Proxies[k] : k \in 1..Len(Proxies)}

\* The urls store holds the list of the resolution under its source URL.
ChainListStored ==
  /\ tweetFetch.url \in DOMAIN urls
  /\ urls[tweetFetch.url].tweetUrl = tweetFetch.url
  /\ urls[tweetFetch.url].imageUrls = tweetFetch.images

NoEmptyListStored == \A u \in DOMAIN urls : urls[u].imageUrls # <<>>

ImageAt(f) == f.images[f.i]

\* The step is a read of the images store that reported a miss or a hit.
ImageReadReports == last'.op = "fetchGetImage" /\ last'.read # "rejected"

\* C15: a read of an entry more than 365 days old reports a miss (the
\* download starts) and one of an entry not older reports a hit (its local
\* reference is the result); the read leaves the store as it is.  An entry
\* changes only when a downloaded image is written under its URL or the
\* store is cleared.
C15_ExpiredEntryIsMiss ==
  [][ /\ (ImageReadReports /\ ImageAt(tweetFetch) \in DOMAIN images) =>
           /\ images' = images
           /\ IF now - images[ImageAt(tweetFetch)].timestamp > TTL
              THEN /\ last'.read = "miss"
                   /\ tweetFetch'.pc = "download"
                   /\ ImageRequest(ImageAt(tweetFetch)) \in net'
              ELSE /\ last'.read = "hit"
                   /\ net' = net
                   /\ tweetFetch'.processedImages =
                        Append(tweetFetch.processedImages,
                               "blob:" \o images[ImageAt(tweetFetch)].blob.bytes)
      /\ \A u \in DOMAIN images :
           (u \notin DOMAIN images' \/ images'[u] # images[u]) =>
             \/ last'.op = "clearImageCache" /\ images' = EmptyStore
             \/ /\ last'.op = "fetchSaveImage"
                /\ tweetFetch.pc = "saveImageToCache" /\ u = ImageAt(tweetFetch)
                /\ images'[u].timestamp = now ]_vars

\* The read of an entry older than the TTL reported a miss: the entry is
\* still in the store and the image is being downloaded.
C15_Witness ==
  /\ last.op = "fetchGetImage" /\ last.read = "miss"
  /\ tweetFetch.pc = "download"
  /\ ImageAt(tweetFetch) \in DOMAIN images
  /\ now - images[ImageAt(tweetFetch)].timestamp > TTL

\* The step is one of downloadAndCacheImage for the image the loop is at.
ImageStep == last'.op \in {"fetchGetImage", "fetchDownload", "fetchSaveImage"}

\* The step is a failure of the read of the cache, of the download or of the
\* write to the cache.
ImageFails ==
  \/ last'.op = "fetchGetImage" /\ last'.read = "rejected"
  \/ last'.op = "fetchDownload" /\ last'.kind # "ok"
  \/ last'.op = "fetchSaveImage" /\ last'.rejected

\* The step is a hit in the cache or the write of a downloaded image.
ImageIsLocal ==
  \/ last'.op = "fetchGetImage" /\ last'.read = "hit"
  \/ last'.op = "fetchSaveImage" /\ ~last'.rejected

\* The loop takes x as the result for its image and goes to the next image,
\* or ends and shows the list.
LoopTakes(x) ==
  /\ tweetFetch'.processedImages = Append(tweetFetch.processedImages, x)
  /\ Len(tweetFetch'.processedImages) = tweetFetch.i
  /\ IF tweetFetch.i < Len(tweetFetch.images)
     THEN /\ tweetFetch'.pc = "getImageFromCache" /\ tweetFetch'.i = tweetFetch.i + 1
          /\ loading'
     ELSE /\ tweetFetch'.pc = "done"
          /\ oembedImgs' = tweetFetch'.processedImages
          /\ Len(oembedImgs') = Len(tweetFetch.images)

\* C16: every image of the list gets one element of the processed list, at
\* its position: its local reference after a hit or a download written to
\* the cache, its own URL after a failure; a failure ends neither the loop
\* nor the resolution with an error.
C16_ProcessedListKeepsShape ==
  [][ ImageStep =>
        /\ tweetFetch'.images = tweetFetch.images
        /\ ~tweetFetch'.thrown
        /\ ImageFails => LoopTakes(ImageAt(tweetFetch))
        /\ ImageIsLocal => LoopTakes("blob:" \o ImageAt(tweetFetch))
        /\ (~ImageFails /\ ~ImageIsLocal) =>
             /\ tweetFetch'.processedImages = tweetFetch.processedImages
             /\ tweetFetch'.i = tweetFetch.i ]_vars

\* A list of several images shown with the first image failed and a later
\* one local.
C16_Witness ==
  /\ tweetFetch.pc = "done" /\ Len(tweetFetch.images) > 1
  /\ oembedImgs = tweetFetch.processedImages
  /\ Len(oembedImgs) = Len(tweetFetch.images)
  /\ oembedImgs[1] = tweetFetch.images[1]
  /\ oembedImgs[2] = "blob:" \o tweetFetch.images[2]

\* The request to a proxy ended with a network error, a status that is not
\* ok, or a body of no use.
ProxyFails == last'.op = "fetchProxy" /\ last'.kind \in {"error", "notOk", "badBody"}

\* C17: a proxy that fails does not end the chain with an error: the next
\* proxy in order is asked; after the last proxy the chain has given the
\* empty list, and the resolution goes on to the table.
C17_RelayFailureContinues ==
  [][ ProxyFails =>
        /\ ~tweetFetch'.thrown
        /\ last'.found = <<>>
        /\ ProxyRequest(tweetFetch.k, tweetFetch.url) \notin net'
        /\ IF tweetFetch.k < 3
           THEN /\ tweetFetch'.pc = "proxy" /\ tweetFetch'.k = tweetFetch.k + 1
                /\ tweetFetch'.tried = Append(tweetFetch.tried, ChainOrder[tweetFetch.k + 3])
                /\ net' = {[to |-> ChainOrder[tweetFetch.k + 3], url |-> tweetFetch.url]}
                /\ tweetFetch'.images = <<>>
           ELSE /\ Attempted(tweetFetch') = ChainOrder
                /\ net' = {}
                /\ \/ tweetFetch'.pc = "done" /\ tweetFetch'.images = <<>> /\ ~loading'
                   \/ tweetFetch'.from = "table" ]_vars

\* The three proxies were asked, the last one failed with a network error,
\* and the resolution ended with no image.
C17_Witness ==
  /\ last.op = "fetchProxy" /\ last.kind = "error"
  /\ tweetFetch.pc = "done" /\ tweetFetch.k = 3
  /\ Attempted(tweetFetch) = ChainOrder
  /\ tweetFetch.images = <<>> /\ ~tweetFetch.thrown /\ ~loading

\* C19: at most one request of a resolution is on the network at any time,
\* and it is the one the resolution waits for.
C19_OneRequestInFlight ==
  /\ Cardinality(net) <= 1
  /\ net # {} =>
       /\ tweetFetch.pc \in {"oembed", "proxy", "download"}
       /\ tweetFetch.pc = "oembed" =>
            net = {[to |-> "publish.x.com/oembed", url |-> tweetFetch.url]}
       /\ tweetFetch.pc = "proxy" =>
            net = {[to |-> ChainOrder[tweetFetch.k + 2], url |-> tweetFetch.url]}
       /\ tweetFetch.pc = "download" =>
            net = {[to |-> "image", url |-> ImageAt(tweetFetch)]}

\* The download of a later image of the list is the only request in flight.
C19_Witness ==
  /\ tweetFetch.pc = "download" /\ tweetFetch.i > 1
  /\ net = {[to |-> "image", url |-> ImageAt(tweetFetch)]}
  /\ loading

\* C18: a resolution in progress ends, whatever failed on its way, with
\* loading false again; one that got no image from any strategy leaves the
\* shown list empty.
C18_ResolutionEnds ==
  /\ loading ~> (~loading /\ tweetFetch.pc = "done")
  /\ [](tweetFetch.pc \notin {"idle", "done"} => loading)
  /\ []((tweetFetch.pc = "done" /\ tweetFetch.images = <<>>) => oembedImgs = <<>>)

\* A resolution ended after the write of its list to the urls store failed.
C18_Witness ==
  /\ tweetFetch.pc = "done" /\ tweetFetch.thrown /\ tweetFetch.images # <<>>
  /\ ~loading /\ net = {}

(***************************************************************************)
(* Properties of the manual URL box.                                       *)
(***************************************************************************)
\* The positions of the separators of a text, and where its pieces start.
SeparatorsOf(text) == {i \in 1..Len(text) : text[i] \in {",", "\n"}}
PieceStarts(text) == {1} \cup {i + 1 : i \in SeparatorsOf(text)}

\* The positions of the piece starting at s that are not blank.
PieceCore(text, s) ==
  {i \in s..Len(text) :
     /\ text[i] # " "
     /\ \A j \in s..i : j \notin SeparatorsOf(text)}

\* The starts of the pieces that have something else than blanks.
KeptPieces(text) == {s \in PieceStarts(text) : PieceCore(text, s) # {}}

\* The piece starting at s from its first to its last position not blank.
TrimmedPiece(text, s) ==
  LET core == PieceCore(text, s)
      lo == CHOOSE i \in core : \A j \in core : i <= j
      hi == CHOOSE i \in core : \A j \in core : j <= i
  IN ConcatChunks(SubSeq(text, lo, hi))

\* The list holds, in the order of the text, the trimmed pieces that are
\* not blank, and nothing else.
IsListOf(list, text) ==
  /\ Len(list) = Cardinality(KeptPieces(text))
  /\ \A s \in KeptPieces(text) :
       list[Cardinality({k \in KeptPieces(text) : k <= s})] = TrimmedPiece(text, s)

\* The strings made of blanks only, the empty one among them.
BlankStrings ==
  {ConcatChunks(w) : w \in UNION {[1..n -> {" "}] : n \in 0..MaxText}}

NoBlankEntry(list) == \A i \in 1..Len(list) : list[i] \notin BlankStrings

\* C20: the save gives the record in memory and the write to the days store
\* the list of the trimmed non-blank pieces of the text, in their order;
\* the write stores that list, and no stored list has an empty or blank
\* entry.
C20_ManualUrlsParsed ==
  [][ /\ (last'.op = "manualUrlsSave" /\ IsDefined(dayState)) =>
           /\ IsListOf(dayState'.manualImageUrls, manualUrlsInput)
           /\ dbq'[Len(dbq')].next.manualImageUrls = dayState'.manualImageUrls
      /\ (last'.op = "setDay" /\ "manualImageUrls" \in DOMAIN last'.frame.partial) =>
           days'[last'.frame.next.id].manualImageUrls
             = last'.frame.partial.manualImageUrls
      /\ \A id \in DOMAIN days' : NoBlankEntry(ManualOf(days'[id])) ]_vars

\* A text ending in a comma and a blank line was saved and written: one entry.
C20_Witness ==
  /\ last.op = "setDay"
  /\ manualUrlsInput = <<"a", ",", "\n">>
  /\ IsDefined(dayState) /\ dayState.id \in DOMAIN days
  /\ days[dayState.id].manualImageUrls = <<"a">>

(***************************************************************************)
(* Properties of the extraction of media URLs from the text of a proxy.    *)
(***************************************************************************)
\* The positions of a text where a media URL stands, and those where one
\* stands that did not stand before.
MediaPositions(text) ==
  {i \in 1..Len(text) :
     text[i].site = "https://pbs.twimg.com/media/" /\ text[i].name # ""}

FirstOccurrences(text) ==
  {i \in MediaPositions(text) : \A j \in MediaPositions(text) : j < i => text[j] # text[i]}

\* The list has, for every first occurrence of a media URL and in the order
\* of the text, that URL without its query and with the suffix of the large
\* format, and nothing else.
IsExtractionOf(list, text) ==
  /\ Len(list) = Cardinality(FirstOccurrences(text))
  /\ \A i \in FirstOccurrences(text) :
       list[Cardinality({j \in FirstOccurrences(text) : j <= i})]
         = "https://pbs.twimg.com/media/" \o text[i].name \o "?format=jpg&name=large"

\* C21: what a proxy's text yields is the list of its media URLs, identical
\* ones once, in the order of their first occurrence, each without query and
\* with the suffix ?format=jpg&name=large; URLs that do not match are not in it.
C21_MediaUrlsExtracted ==
  [][ last'.op = "fetchProxy" =>
        /\ IsExtractionOf(last'.found, last'.text)
        /\ last'.found # <<>> => tweetFetch'.images = last'.found ]_vars

\* A text with media URLs and others was read; the list of the resolution
\* is the one extracted from it.
C21_Witness ==
  /\ last.op = "fetchProxy"
  /\ Len(last.text) > Len(last.found) /\ Len(last.found) > 1
  /\ \E i \in 1..Len(last.text) : last.text[i].site # "https://pbs.twimg.com/media/"
  /\ tweetFetch.images = last.found
  /\ tweetFetch.pc = "saveTweetUrlsToCache"

\* C30: the list a proxy's text yields has no URL twice.
C30_NoUrlTwice ==
  [][ last'.op = "fetchProxy" =>
        \A i, j \in 1..Len(last'.found) : last'.found[i] = last'.found[j] => i = j ]_vars

(***************************************************************************)
(* Properties of the effective image list.                                 *)
(***************************************************************************)
\* The list is first the resolved images, then the entries of the manual list.
IsConcatenation(list, resolved, manual) ==
  /\ Len(list) = Len(resolved) + Len(manual)
  /\ \A i \in 1..Len(resolved) : list[i] = resolved[i]
  /\ \A i \in 1..Len(manual) : list[Len(resolved) + i] = manual[i]

\* C22 as stated: the effective list is the resolved images followed by the
\* manual URLs of the record, as stored.
C22_EffectiveIsConcatenation ==
  IsConcatenation(allImages, oembedImgs, ManualOf(dayState))

\* C22, amended: the effective list is the resolved images followed by the
\* manual URLs of the record that are not the empty string, both in their
\* order and with nothing removed for being there twice.
C22_EffectiveIsConcatenationOfNonEmpty ==
  IsConcatenation(allImages, oembedImgs,
                  SelectSeq(ManualOf(dayState), LAMBDA u : u # ""))

\* A resolved image stands before a manual list that has the same URL, twice.
C22_Witness ==
  /\ oembedImgs = <<"e1">>
  /\ IsDefined(dayState) /\ ManualOf(dayState) = <<"", "e1", "e1">>
  /\ allImages = <<"e1", "e1", "e1">>
  /\ prevImgCountRef = 3

(***************************************************************************)
(* Properties of the cache-clear.                                          *)
(***************************************************************************)
\* C23: the cache-clear empties the images store, then the urls store, then
\* writes the record of the day with tweetUrl, manualImageUrls and done
\* reset and its other fields as they were, and shows that record; no step
\* takes a record out of the days store.
C23_ClearResetsAndKeepsRecords ==
  [][ /\ last'.op = "clearImageCache" => DOMAIN images' = {}
      /\ last'.op = "clearUrlsCache" => DOMAIN urls' = {} /\ oembedImgs' = <<>>
      /\ last'.op = "clearSetDay" =>
           /\ dayState'.tweetUrl = "" /\ dayState'.manualImageUrls = <<>>
           /\ ~dayState'.done
           /\ \A k \in DOMAIN dayState \ {"tweetUrl", "manualImageUrls", "done"} :
                k \in DOMAIN dayState' /\ dayState'[k] = dayState[k]
           /\ dayState'.id \in DOMAIN days' /\ days'[dayState'.id] = dayState'
      /\ DOMAIN days \subseteq DOMAIN days' ]_vars

\* The record of a day with a tweet URL was reset by the cache-clear, after a
\* resolution had ended; the caches are empty.
C23_Witness ==
  /\ last.op = "clearSetDay"
  /\ DOMAIN images = {} /\ DOMAIN urls = {}
  /\ tweetFetch.pc = "done" /\ tweetFetch.processedImages # <<>>
  /\ dayState.tweetUrl = "" /\ ~dayState.done
  /\ days[dayState.id] = dayState

(***************************************************************************)
(* Properties of the helpers.                                              *)
(***************************************************************************)
\* C24: idFor(year, day) is the year, "-10-" and the day; idFor(2025, 7) is
\* "2025-10-7"; no other year and day of October give the same id.
C24_IdForInjective ==
  last.op = "idFor" =>
    /\ last.id = ToString(last.year) \o "-10-" \o ToString(last.day)
    /\ (last.year = 2025 /\ last.day = 7) => last.id = "2025-10-7"
    /\ \A y \in IdForYears, d \in 1..31 :
         idFor(y, d) = last.id => (y = last.year /\ d = last.day)

\* idFor was called with 2025 and 7.
C24_Witness ==
  last.op = "idFor" /\ last.year = 2025 /\ last.day = 7 /\ last.id = "2025-10-7"

\* C25: opening the database at version 2 on a database of version 1 that holds
\* only the days store succeeds, adds the images and urls stores, both empty,
\* and leaves the days store with every record as it was; the upgrade handler
\* run on a database that has the three stores leaves the database as it was.
C25_UpgradeKeepsDays ==
  /\ (last.op = "openDB" /\ last.before.version = 1
         /\ DOMAIN last.before.stores = {"days"}) =>
        /\ ~last.rejected
        /\ last.after.version = DB_VERSION
        /\ DOMAIN last.after.stores = {"days", "images", "urls"}
        /\ last.after.stores["days"] = last.before.stores["days"]
        /\ last.after.stores["images"] = EmptyStore
        /\ last.after.stores["urls"] = EmptyStore
  /\ (last.op = "onupgradeneeded"
         /\ {"days", "images", "urls"} \subseteq DOMAIN last.before.stores) =>
        last.after = last.before

C25_Witness ==
  /\ last.op = "openDB"
  /\ last.before.version = 1
  /\ DOMAIN last.before.stores = {"days"}
  /\ DOMAIN last.before.stores["days"] = {idFor(Year, 1), idFor(Year, 2)}
  /\ last.after.stores["days"] = last.before.stores["days"]
  /\ "images" \in DOMAIN last.after.stores

\* C26: there are exactly 31 prompts and none is empty; the prompt index lies
\* in 0..30; and when the selected day d is in 1..31 the prompt shown is the
\* one at index d-1, the d-th of the list.
C26_PromptOfSelectedDay ==
  /\ Len(PROMPTS) = 31
  /\ \A i \in 1..Len(PROMPTS) : PROMPTS[i] # ""
  /\ idx \in 0..30
  /\ selectedDay \in 1..31 => (idx = selectedDay - 1 /\ promptText = PROMPTS[selectedDay])

C26_Witness ==
  /\ last.op = "loadDay"
  /\ selectedDay = 31
  /\ idx = 30
  /\ promptText = "Cinematic Halloween Crossover"

\* C27: whenever no day load is in flight, the current record belongs to the
\* selected day: its day is selectedDay and its id is idFor(year, selectedDay).
\* Stated for the states where nothing at all is in flight (no load, no file
\* being read, no storage operation pending) and the record is defined.
C27_RecordOfSelectedDay ==
  (dbq = <<>> /\ reader = <<>> /\ IsDefined(dayState)) =>
     /\ dayState.day = selectedDay
     /\ dayState.id = idFor(year, selectedDay)

\* C28: the result of a resolution started on one day never affects another
\* day.  A step that puts images into the resolved images does so while the
\* current record is the one the resolution was started on, and the
\* auto-completion rule marks a record done on account of resolved images only
\* if the resolution that produced them was started on that record.
C28_ResolutionStaysOnItsDay ==
  [][/\ (oembedImgs' # oembedImgs /\ oembedImgs' # <<>>) =>
          (IsDefined(dayState) /\ tweetFetch.dayId = dayState.id)
     /\ (autoMarked' # autoMarked /\ oembedImgs # <<>>) =>
          tweetFetch.dayId = dayState.id]_vars

\* C29: once the initial day load has completed, the current record is always
\* defined.  The initial load defines it, so the property is that no step
\* takes a defined current record to an undefined one.
C29_RecordStaysDefined == [][IsDefined(dayState) => IsDefined(dayState')]_vars

====
